---- MODULE Spec2Model ----
(***************************************************************************)
(* A model of the Mapsforge map-file reader (crate `reader`):               *)
(*   header.rs            sub-file descriptors and the zoom -> sub-file     *)
(*                        table, query zoom clamping and lookup             *)
(*   index_cache.rs       the LRU cache of index blocks                     *)
(*   query_parameters.rs  base-tile and block rectangles of a query         *)
(*   query_calculations.rs  the child-tile bitmask                          *)
(*   map_file.rs          the handle: restrict_to_zoom_range, read_* and    *)
(*                        the block decoder                                 *)
(*                                                                         *)
(* Coordinates are integers in micro-degrees.  A Vec of the source is a     *)
(* sequence: Vec index i is sequence index i + 1.  A 40-bit index word is   *)
(* kept as a pair of limbs [hi (bits 39..24), lo (bits 23..0)].             *)
(***************************************************************************)
EXTENDS Integers, Sequences, FiniteSets, TLC

VARIABLES
    file,            \* the byte source: the map file the handle was opened on
    header,          \* MapFileHeader: sub_file_parameters, zoom_level_minimum/maximum
    zoom_level_min,  \* MapFile.zoom_level_min
    zoom_level_max,  \* MapFile.zoom_level_max
    cache,           \* MapFile.database_index_cache: [capacity, map]
    buffer_data,     \* ReadBuffer.buffer_data: the byte region
    buffer_position, \* ReadBuffer.buffer_position: the cursor
    last             \* the last operation, its arguments and what it returned

vars == <<file, header, zoom_level_min, zoom_level_max, cache, buffer_data, buffer_position, last>>

NONE == [none |-> TRUE]

(***************************************************************************)
(* Bounds of the model.                                                     *)
(***************************************************************************)
\* sub-file zoom levels declared in a header range over 0..MaxHeaderZoom
MaxHeaderZoom == 3
\* a header declares 1..MaxSubFiles sub-files
MaxSubFiles == 2
\* zoom levels looked up / queried range over 0..MaxHeaderZoom + ZoomSlack
ZoomSlack == 2

Min(a, b) == IF a < b THEN a ELSE b
\* a maximum that is always its first argument
MaxOfFirst(a, b) == a

Max(a, b) == IF a > b THEN a ELSE b
Pow2(k) == 2 ^ k

(***************************************************************************)
(* mercator.rs                                                              *)
(***************************************************************************)
\* tile_y_to_latitude(y, LatTableZoom) for y = 0..32, rounded to micro-degrees
LatTable ==
    << 85051129, 83979259, 82676285, 81093214, 79171335, 76840816, 74019543,
       70612614, 66513260, 61606396, 55776573, 48922499, 40979898, 31952162,
       21943046, 11178402, 0, -11178402, -21943046, -31952162, -40979898,
       -48922499, -55776573, -61606396, -66513260, -70612614, -74019543,
       -76840816, -79171335, -81093214, -82676285, -83979259, -85051129 >>

\* the zoom level whose tile edges the table lists
LatTableZoom == CHOOSE k \in 0..16 : Pow2(k) + 1 = Len(LatTable)

LATITUDE_MAX == 85051129
LATITUDE_MIN == -LATITUDE_MAX

\* 90 - 360 * atan(exp(-(0.5 - y/n) * 2 pi)) / pi, for 0 <= y <= n, z <= LatTableZoom
tile_y_to_latitude(tile_y, zoom_level) ==
    LatTable[tile_y * Pow2(LatTableZoom - zoom_level) + 1]

\* x * 360 / n - 180 (exact in micro-degrees for zoom_level <= 9)
tile_x_to_longitude(tile_x, zoom_level) ==
    tile_x * (360000000 \div Pow2(zoom_level)) - 180000000

\* floor((lon + 180) / 360 * n)
longitude_to_tile_x(longitude, zoom_level) ==
    (longitude + 180000000) \div (360000000 \div Pow2(zoom_level))

\* floor((0.5 - atanh(sin(lat)) / (2 pi)) * n) clamped to [0, n - 1]: the
\* projection decreases with the latitude, so the floor is the largest k
\* whose upper edge tile_y_to_latitude(k) is not below the latitude
latitude_to_tile_y(latitude, zoom_level) ==
    LET lat == Min(Max(latitude, LATITUDE_MIN), LATITUDE_MAX)
        n == Pow2(zoom_level)
        tile_y == Cardinality({k \in 1..n : tile_y_to_latitude(k, zoom_level) >= lat})
    IN  Min(Max(tile_y, 0), n - 1)

(***************************************************************************)
(* header.rs                                                                *)
(***************************************************************************)
BYTES_PER_INDEX_ENTRY == 5
BASE_ZOOM_LEVEL_MAX == 20
HEADER_SIZE_MIN == 70
SIGNATURE_LENGTH_INDEX == 16
ZOOM_LEVEL_LIMIT == 22
U8_MAX == 255

\* SubFileParameterBuilder::build: the boundary tiles at the base zoom level
\* and the derived block grid (the wrapping operations do not wrap on the
\* values of the model)
SubFileParameterBuild(b) ==
    LET boundary_tile_bottom == latitude_to_tile_y(b.bounding_box.min_latitude, b.base_zoom_level)
        boundary_tile_left == longitude_to_tile_x(b.bounding_box.min_longitude, b.base_zoom_level)
        boundary_tile_top == latitude_to_tile_y(b.bounding_box.max_latitude, b.base_zoom_level)
        boundary_tile_right == longitude_to_tile_x(b.bounding_box.max_longitude, b.base_zoom_level)
        blocks_width == boundary_tile_right - boundary_tile_left + 1
        blocks_height == boundary_tile_bottom - boundary_tile_top + 1
        number_of_blocks == blocks_width * blocks_height
    IN  [ base_zoom_level |-> b.base_zoom_level,
          blocks_height |-> blocks_height,
          blocks_width |-> blocks_width,
          boundary_tile_bottom |-> boundary_tile_bottom,
          boundary_tile_left |-> boundary_tile_left,
          boundary_tile_right |-> boundary_tile_right,
          boundary_tile_top |-> boundary_tile_top,
          index_end_address |-> b.index_start_address + number_of_blocks * BYTES_PER_INDEX_ENTRY,
          index_start_address |-> b.index_start_address,
          number_of_blocks |-> number_of_blocks,
          start_address |-> b.start_address,
          sub_file_size |-> b.sub_file_size,
          zoom_level_max |-> b.zoom_level_max,
          zoom_level_min |-> b.zoom_level_min ]

\* MapFileHeader::new (sub_file_parameters: None is the empty sequence, for
\* which get_sub_file_parameter answers None as well)
MapFileHeaderNew ==
    [ sub_file_parameters |-> <<>>, zoom_level_maximum |-> 0, zoom_level_minimum |-> U8_MAX ]

\* the bound checks read_sub_file_parameters makes on one declared sub-file,
\* in the order of the fields; "ok" when all pass
SubFileFieldError(d, file_size) ==
    IF d.base_zoom_level > BASE_ZOOM_LEVEL_MAX THEN "invalid base zoom level"
    ELSE IF d.zoom_level_min > ZOOM_LEVEL_LIMIT THEN "invalid minimum zoom level"
    ELSE IF d.zoom_level_max > ZOOM_LEVEL_LIMIT THEN "invalid maximum zoom level"
    ELSE IF d.zoom_level_min > d.zoom_level_max THEN "invalid zoom level range"
    ELSE IF d.start_address < HEADER_SIZE_MIN \/ d.start_address >= file_size
         THEN "invalid start address"
    ELSE IF d.sub_file_size < 1 THEN "invalid sub-file size"
    ELSE "ok"

\* the loop of read_sub_file_parameters over the declared sub-files from
\* position i: st = [err, temp, zmin, zmax]
RECURSIVE ReadDeclared(_, _, _, _, _, _)
ReadDeclared(decls, i, file_size, bounding_box, is_debug_file, st) ==
    IF i > Len(decls) THEN st
    ELSE LET d == decls[i]
             e == SubFileFieldError(d, file_size)
         IN  IF e # "ok" THEN [st EXCEPT !.err = e]
             ELSE LET p == SubFileParameterBuild(
                               [ base_zoom_level |-> d.base_zoom_level,
                                 zoom_level_min |-> d.zoom_level_min,
                                 zoom_level_max |-> d.zoom_level_max,
                                 start_address |-> d.start_address,
                                 index_start_address |->
                                     IF is_debug_file
                                     THEN d.start_address + SIGNATURE_LENGTH_INDEX
                                     ELSE d.start_address,
                                 sub_file_size |-> d.sub_file_size,
                                 bounding_box |-> bounding_box ])
                  IN  ReadDeclared(decls, i + 1, file_size, bounding_box, is_debug_file,
                          [ err |-> "ok",
                            temp |-> Append(st.temp, p),
                            zmin |-> IF st.zmin > d.zoom_level_min
                                     THEN d.zoom_level_min ELSE st.zmin,
                            zmax |-> IF st.zmax < d.zoom_level_max
                                     THEN d.zoom_level_max ELSE st.zmax ])

\* temp.iter().find(|p| zoom >= p.zoom_level_min && zoom <= p.zoom_level_max):
\* the position of the first match, 0 when there is none
FindContaining(params, zoom) ==
    LET hits == {k \in 1..Len(params) :
                    zoom >= params[k].zoom_level_min /\ zoom <= params[k].zoom_level_max}
    IN  IF hits = {} THEN 0 ELSE CHOOSE k \in hits : \A j \in hits : k <= j

\* the dense table of read_sub_file_parameters: one entry per zoom level
\* 0..=zoom_level_maximum, the first matching declared sub-file or else the
\* last declared one
DenseTable(temp, zoom_level_maximum) ==
    [ i \in 1..(zoom_level_maximum + 1) |->
        LET k == FindContaining(temp, i - 1)
        IN  IF k # 0 THEN temp[k] ELSE temp[Len(temp)] ]

\* MapFileHeader::read_sub_file_parameters on a fresh header: [err, temp, header]
read_sub_file_parameters(decls, file_size, bounding_box, is_debug_file) ==
    IF Len(decls) < 1
    THEN [ err |-> "invalid number of sub-files", temp |-> <<>>, header |-> MapFileHeaderNew ]
    ELSE LET st == ReadDeclared(decls, 1, file_size, bounding_box, is_debug_file,
                       [ err |-> "ok", temp |-> <<>>,
                         zmin |-> MapFileHeaderNew.zoom_level_minimum,
                         zmax |-> MapFileHeaderNew.zoom_level_maximum ])
         IN  IF st.err # "ok"
             THEN [ err |-> st.err, temp |-> st.temp, header |-> MapFileHeaderNew ]
             ELSE [ err |-> "ok",
                    temp |-> st.temp,
                    header |-> [ sub_file_parameters |-> DenseTable(st.temp, st.zmax),
                                 zoom_level_maximum |-> st.zmax,
                                 zoom_level_minimum |-> st.zmin ] ]

\* a query zoom level that is not clamped
get_query_zoom_level_unclamped(h, zoom_level) ==
    zoom_level

\* a clamp that forgets the upper end of the file's zoom range
get_query_zoom_level_floor_only(h, zoom_level) ==
    IF zoom_level < h.zoom_level_minimum THEN h.zoom_level_minimum ELSE zoom_level

\* MapFileHeader::get_query_zoom_level
get_query_zoom_level(h, zoom_level) ==
    IF zoom_level > h.zoom_level_maximum THEN h.zoom_level_maximum
    ELSE IF zoom_level < h.zoom_level_minimum THEN h.zoom_level_minimum
    ELSE zoom_level

\* the loop of get_sub_file_parameter: index = query_zoom_level - offset, and
\* the first entry of params whose zoom range contains index
RECURSIVE SubFileBackwards(_, _, _)
SubFileBackwards(params, query_zoom_level, offset) ==
    IF offset > query_zoom_level THEN NONE
    ELSE LET k == FindContaining(params, query_zoom_level - offset)
         IN  IF k # 0 THEN params[k]
             ELSE SubFileBackwards(params, query_zoom_level, offset + 1)

\* a lookup that skips the zoom level asked for and starts one below it
get_sub_file_parameter_skipping(h, query_zoom_level) ==
    IF query_zoom_level >= Len(h.sub_file_parameters) THEN NONE
    ELSE SubFileBackwards(h.sub_file_parameters, query_zoom_level, 1)

\* MapFileHeader::get_sub_file_parameter
get_sub_file_parameter(h, query_zoom_level) ==
    IF query_zoom_level >= Len(h.sub_file_parameters) THEN NONE
    ELSE SubFileBackwards(h.sub_file_parameters, query_zoom_level, 0)

(***************************************************************************)
(* Bit operations on non-negative integers.                                 *)
(***************************************************************************)
RECURSIVE BitAnd(_, _)
BitAnd(a, b) ==
    IF a = 0 \/ b = 0 THEN 0
    ELSE (a % 2) * (b % 2) + 2 * BitAnd(a \div 2, b \div 2)

\* an assignment where the bits are to be combined
BitOr_assigned(a, b) == b

RECURSIVE BitOr(_, _)
BitOr(a, b) ==
    IF a = 0 THEN b
    ELSE IF b = 0 THEN a
    ELSE Max(a % 2, b % 2) + 2 * BitOr(a \div 2, b \div 2)

\* x >> k and x << k on non-negative values that stay in range
ShiftRight(x, k) == x \div Pow2(k)
\* a shift by one position, whatever the count
ShiftLeft_once(x, k) == x * 2

ShiftLeft(x, k) == x * Pow2(k)

(***************************************************************************)
(* 40-bit index words: [hi |-> bits 39..24, lo |-> bits 23..0].             *)
(***************************************************************************)
LongAnd(a, b) == [hi |-> BitAnd(a.hi, b.hi), lo |-> BitAnd(a.lo, b.lo)]
LongIsZero(a) == a.hi = 0 /\ a.lo = 0
\* a > n for an integer 0 <= n < 2^24
LongGtInt(a, n) == a.hi > 0 \/ a.lo > n
LongZero == [hi |-> 0, lo |-> 0]

\* deserializer.rs, Deserializer::get_five_bytes_long: big-endian, five bytes
get_five_bytes_long(buffer, offset) ==
    [ hi |-> buffer[offset + 1] * 256 + buffer[offset + 2],
      lo |-> buffer[offset + 3] * 65536 + buffer[offset + 4] * 256 + buffer[offset + 5] ]

\* the five bytes of an index word
FiveBytes(w) ==
    << w.hi \div 256, w.hi % 256, w.lo \div 65536, (w.lo \div 256) % 256, w.lo % 256 >>

(***************************************************************************)
(* The byte source.  A file holds, for each declared sub-file, its index    *)
(* (five bytes per block) and its data blocks, keyed by their offset from   *)
(* the start of the sub-file.                                               *)
(***************************************************************************)
\* the position of the declared sub-file whose index starts at the address
SubFileAt(f, index_start_address) ==
    CHOOSE k \in 1..Len(f.sub_files) :
        index_start_address =
            f.sub_files[k].start_address + (IF f.debug_file THEN SIGNATURE_LENGTH_INDEX ELSE 0)

\* the I/O error the device answers the next seek or read with: "none",
\* "seek" or "read"
IoFault(f) == IF "io" \in DOMAIN f THEN f.io ELSE "none"

\* a read that fills what the file does not hold with zeros
ReadIndexBytes_zero_filled(f, sub_file_parameter, position, size) ==
    [io |-> IoFault(f), eof |-> FALSE, bytes |-> [j \in 1..size |-> 0]]

\* file_channel.seek(position); read_exact(size bytes) inside the index of a
\* sub-file: the bytes, "eof" when the file ends before them, or the I/O
\* error of the device
ReadIndexBytes(f, sub_file_parameter, position, size) ==
    LET bytes == f.data[SubFileAt(f, sub_file_parameter.index_start_address)].index
        from == position - sub_file_parameter.index_start_address
    IN  IF IoFault(f) # "none" THEN [io |-> IoFault(f), eof |-> FALSE, bytes |-> <<>>]
        ELSE IF from + size > Len(bytes) THEN [io |-> "none", eof |-> TRUE, bytes |-> <<>>]
        ELSE [io |-> "none", eof |-> FALSE, bytes |-> SubSeq(bytes, from + 1, from + size)]

(***************************************************************************)
(* index_cache.rs                                                           *)
(***************************************************************************)
INDEX_ENTRIES_PER_BLOCK == 128
SIZE_OF_INDEX_BLOCK == INDEX_ENTRIES_PER_BLOCK * BYTES_PER_INDEX_ENTRY
INDEX_CACHE_SIZE == 64

\* IndexCache::new: an empty LruCache of the capacity, of 1 for capacity 0;
\* map is in LRU order, the most recently used entry last
IndexCacheNew(capacity) ==
    [capacity |-> IF capacity = 0 THEN 1 ELSE capacity, map |-> <<>>]

\* IndexCache::destroy
destroy(c) == [c EXCEPT !.map = <<>>]

\* a lookup whose keys compare by the sub-file alone
CachePosition_by_sub_file(c, key) ==
    LET hits == {i \in 1..Len(c.map) : c.map[i].key.sub_file_parameter = key.sub_file_parameter}
    IN  IF hits = {} THEN 0 ELSE CHOOSE i \in hits : TRUE

\* the position of the key in the cache, 0 when it is not cached
CachePosition(c, key) ==
    LET hits == {i \in 1..Len(c.map) : c.map[i].key = key}
    IN  IF hits = {} THEN 0 ELSE CHOOSE i \in hits : TRUE

RemoveAt(s, i) == SubSeq(s, 1, i - 1) \o SubSeq(s, i + 1, Len(s))

\* LruCache::get: a hit becomes the most recently used entry
CacheTouch(c, i) == [c EXCEPT !.map = Append(RemoveAt(c.map, i), c.map[i])]

\* a put that keeps every entry, whatever the capacity
CachePutUnbounded(c, key, block) ==
    [c EXCEPT !.map = Append(c.map, [key |-> key, block |-> block])]

\* LruCache::put of a key that is not cached: at capacity the least recently
\* used entry goes
CachePut(c, key, block) ==
    [c EXCEPT !.map = Append(IF Len(c.map) >= c.capacity THEN Tail(c.map) ELSE c.map,
                             [key |-> key, block |-> block])]

\* IndexCache::get_index_entry: [cache, err, entry]
get_index_entry(c, f, sub_file_parameter, block_number) ==
    IF block_number >= sub_file_parameter.number_of_blocks
    THEN [cache |-> c, err |-> "invalid block number", entry |-> LongZero]
    ELSE
    LET index_block_number == block_number \div INDEX_ENTRIES_PER_BLOCK
        key == [ sub_file_parameter |-> sub_file_parameter,
                 index_block_number |-> index_block_number ]
        at == CachePosition(c, key)
        index_block_position ==
            sub_file_parameter.index_start_address + index_block_number * SIZE_OF_INDEX_BLOCK
        remaining_index_size == sub_file_parameter.index_end_address - index_block_position
        \* (remaining as usize): a negative remainder is a huge size
        index_block_size ==
            IF remaining_index_size < 0 THEN SIZE_OF_INDEX_BLOCK
            ELSE Min(SIZE_OF_INDEX_BLOCK, remaining_index_size)
        read == ReadIndexBytes(f, sub_file_parameter, index_block_position, index_block_size)
        index_entry_in_block == block_number % INDEX_ENTRIES_PER_BLOCK
        address_in_index_block == index_entry_in_block * BYTES_PER_INDEX_ENTRY
        Entry(index_block) ==
            IF address_in_index_block + BYTES_PER_INDEX_ENTRY > Len(index_block)
            THEN LongZero
            ELSE get_five_bytes_long(index_block, address_in_index_block)
    IN  IF at # 0
        THEN [cache |-> CacheTouch(c, at), err |-> "ok", entry |-> Entry(c.map[at].block)]
        ELSE IF index_block_size = 0
        THEN [cache |-> c, err |-> "invalid index block size", entry |-> LongZero]
        ELSE IF read.io # "none"
        THEN [cache |-> c, err |-> "IO error", entry |-> LongZero]
        ELSE IF read.eof
        THEN [cache |-> c, err |-> "ok", entry |-> LongZero]
        ELSE [ cache |-> CachePut(c, key, read.bytes), err |-> "ok",
               entry |-> Entry(read.bytes) ]

(***************************************************************************)
(* query_calculations.rs                                                    *)
(***************************************************************************)
get_first_level_tile_bitmask(tile) ==
    IF tile.tile_x % 2 = 0 /\ tile.tile_y % 2 = 0 THEN 52224     \* 0xcc00
    ELSE IF tile.tile_x % 2 = 1 /\ tile.tile_y % 2 = 0 THEN 13056 \* 0x3300
    ELSE IF tile.tile_x % 2 = 0 /\ tile.tile_y % 2 = 1 THEN 204  \* 0xcc
    ELSE 51                                                       \* 0x33

get_second_level_tile_bitmask_lower_left(subtile_x, subtile_y) ==
    IF subtile_x % 2 = 0 /\ subtile_y % 2 = 0 THEN 128      \* 0x80
    ELSE IF subtile_x % 2 = 1 /\ subtile_y % 2 = 0 THEN 64  \* 0x40
    ELSE IF subtile_x % 2 = 0 /\ subtile_y % 2 = 1 THEN 8   \* 0x8
    ELSE 4                                                   \* 0x4

get_second_level_tile_bitmask_lower_right(subtile_x, subtile_y) ==
    IF subtile_x % 2 = 0 /\ subtile_y % 2 = 0 THEN 32       \* 0x20
    ELSE IF subtile_x % 2 = 1 /\ subtile_y % 2 = 0 THEN 16  \* 0x10
    ELSE IF subtile_x % 2 = 0 /\ subtile_y % 2 = 1 THEN 2   \* 0x2
    ELSE 1                                                   \* 0x1

get_second_level_tile_bitmask_upper_left(subtile_x, subtile_y) ==
    IF subtile_x % 2 = 0 /\ subtile_y % 2 = 0 THEN 32768      \* 0x8000
    ELSE IF subtile_x % 2 = 1 /\ subtile_y % 2 = 0 THEN 16384 \* 0x4000
    ELSE IF subtile_x % 2 = 0 /\ subtile_y % 2 = 1 THEN 2048  \* 0x800
    ELSE 1024                                                  \* 0x400

\* an upper-right table whose last two entries are the same bit
get_second_level_tile_bitmask_upper_right_repeating(subtile_x, subtile_y) ==
    IF subtile_x % 2 = 0 /\ subtile_y % 2 = 0 THEN 8192
    ELSE IF subtile_x % 2 = 1 /\ subtile_y % 2 = 0 THEN 4096
    ELSE 512

get_second_level_tile_bitmask_upper_right(subtile_x, subtile_y) ==
    IF subtile_x % 2 = 0 /\ subtile_y % 2 = 0 THEN 8192       \* 0x2000
    ELSE IF subtile_x % 2 = 1 /\ subtile_y % 2 = 0 THEN 4096  \* 0x1000
    ELSE IF subtile_x % 2 = 0 /\ subtile_y % 2 = 1 THEN 512   \* 0x200
    ELSE 256                                                   \* 0x100

calculate_tile_bitmask(tile, zoom_level_difference) ==
    IF zoom_level_difference = 1 THEN get_first_level_tile_bitmask(tile)
    ELSE
    LET subtile_x == ShiftRight(tile.tile_x, zoom_level_difference - 2)
        subtile_y == ShiftRight(tile.tile_y, zoom_level_difference - 2)
        parent_tile_x == ShiftRight(subtile_x, 1)
        parent_tile_y == ShiftRight(subtile_y, 1)
    IN  IF parent_tile_x % 2 = 0 /\ parent_tile_y % 2 = 0
        THEN get_second_level_tile_bitmask_upper_left(subtile_x, subtile_y)
        ELSE IF parent_tile_x % 2 = 1 /\ parent_tile_y % 2 = 0
        THEN get_second_level_tile_bitmask_upper_right(subtile_x, subtile_y)
        ELSE IF parent_tile_x % 2 = 0 /\ parent_tile_y % 2 = 1
        THEN get_second_level_tile_bitmask_lower_left(subtile_x, subtile_y)
        ELSE get_second_level_tile_bitmask_lower_right(subtile_x, subtile_y)

\* the tiles (x, y) of the rectangle in the order of the two loops, from the
\* position at = <<x, y, bitmask>> on
RECURSIVE BitmaskOver(_, _, _, _)
BitmaskOver(at, upper_left, lower_right, zoom_level_difference) ==
    IF at[1] > lower_right.tile_x THEN at[3]
    ELSE IF at[2] > lower_right.tile_y
    THEN BitmaskOver(<<at[1] + 1, upper_left.tile_y, at[3]>>, upper_left, lower_right,
                     zoom_level_difference)
    ELSE BitmaskOver(<< at[1], at[2] + 1,
                        BitOr(at[3],
                              calculate_tile_bitmask(
                                  [ tile_x |-> at[1], tile_y |-> at[2],
                                    zoom_level |-> upper_left.zoom_level,
                                    tile_size |-> upper_left.tile_size ],
                                  zoom_level_difference)) >>,
                     upper_left, lower_right, zoom_level_difference)

calculate_tile_bitmask_range(upper_left, lower_right, zoom_level_difference) ==
    BitmaskOver(<<upper_left.tile_x, upper_left.tile_y, 0>>, upper_left, lower_right,
                zoom_level_difference)

(***************************************************************************)
(* query_parameters.rs                                                      *)
(***************************************************************************)
QueryParametersNew ==
    [ from_base_tile_x |-> 0, from_base_tile_y |-> 0, from_block_x |-> 0, from_block_y |-> 0,
      query_tile_bitmask |-> 0, query_zoom_level |-> 0,
      to_base_tile_x |-> 0, to_base_tile_y |-> 0, to_block_x |-> 0, to_block_y |-> 0,
      use_tile_bitmask |-> FALSE ]

calculate_base_tiles(q, upper_left, lower_right, sub_file_parameter) ==
    IF upper_left.zoom_level < sub_file_parameter.base_zoom_level
    THEN LET zoom_level_difference == sub_file_parameter.base_zoom_level - upper_left.zoom_level
         IN  [ q EXCEPT
                 !.from_base_tile_x = ShiftLeft(upper_left.tile_x, zoom_level_difference),
                 !.from_base_tile_y = ShiftLeft(upper_left.tile_y, zoom_level_difference),
                 !.to_base_tile_x = ShiftLeft(lower_right.tile_x, zoom_level_difference)
                                    + ShiftLeft(1, zoom_level_difference) - 1,
                 !.to_base_tile_y = ShiftLeft(lower_right.tile_y, zoom_level_difference)
                                    + ShiftLeft(1, zoom_level_difference) - 1,
                 !.use_tile_bitmask = FALSE ]
    ELSE IF upper_left.zoom_level > sub_file_parameter.base_zoom_level
    THEN LET zoom_level_difference == upper_left.zoom_level - sub_file_parameter.base_zoom_level
         IN  [ q EXCEPT
                 !.from_base_tile_x = ShiftRight(upper_left.tile_x, zoom_level_difference),
                 !.from_base_tile_y = ShiftRight(upper_left.tile_y, zoom_level_difference),
                 !.to_base_tile_x = ShiftRight(lower_right.tile_x, zoom_level_difference),
                 !.to_base_tile_y = ShiftRight(lower_right.tile_y, zoom_level_difference),
                 !.use_tile_bitmask = TRUE,
                 !.query_tile_bitmask =
                     calculate_tile_bitmask_range(upper_left, lower_right, zoom_level_difference) ]
    ELSE [ q EXCEPT
             !.from_base_tile_x = upper_left.tile_x,
             !.from_base_tile_y = upper_left.tile_y,
             !.to_base_tile_x = lower_right.tile_x,
             !.to_base_tile_y = lower_right.tile_y,
             !.use_tile_bitmask = FALSE ]

\* calculate_blocks without the cut at the last column and row of the grid
calculate_blocks_uncut(q, sub_file_parameter) ==
    [ q EXCEPT
        !.from_block_x = Max(q.from_base_tile_x - sub_file_parameter.boundary_tile_left, 0),
        !.from_block_y = Max(q.from_base_tile_y - sub_file_parameter.boundary_tile_top, 0),
        !.to_block_x = q.to_base_tile_x - sub_file_parameter.boundary_tile_left,
        !.to_block_y = q.to_base_tile_y - sub_file_parameter.boundary_tile_top ]

calculate_blocks(q, sub_file_parameter) ==
    [ q EXCEPT
        !.from_block_x = Max(q.from_base_tile_x - sub_file_parameter.boundary_tile_left, 0),
        !.from_block_y = Max(q.from_base_tile_y - sub_file_parameter.boundary_tile_top, 0),
        !.to_block_x = Min(q.to_base_tile_x - sub_file_parameter.boundary_tile_left,
                           sub_file_parameter.blocks_width - 1),
        !.to_block_y = Min(q.to_base_tile_y - sub_file_parameter.boundary_tile_top,
                           sub_file_parameter.blocks_height - 1) ]

(***************************************************************************)
(* types.rs, tile.rs                                                        *)
(***************************************************************************)
\* BoundingBox::new: fails when a minimum exceeds its maximum
BoundingBoxNew(min_latitude, min_longitude, max_latitude, max_longitude) ==
    IF min_latitude > max_latitude \/ min_longitude > max_longitude
    THEN [err |-> "Invalid bounding box coordinates", box |-> NONE]
    ELSE [ err |-> "ok",
           box |-> [ min_latitude |-> min_latitude, min_longitude |-> min_longitude,
                     max_latitude |-> max_latitude, max_longitude |-> max_longitude ] ]

BoundingBoxContains(box, latitude, longitude) ==
    /\ latitude >= box.min_latitude
    /\ latitude <= box.max_latitude
    /\ longitude >= box.min_longitude
    /\ longitude <= box.max_longitude

\* BoundingBox::extend_meters: meters / 111000 degrees on each side; the
\* coordinates of the model are whole micro-degrees, so comparing against the
\* box grown by the fraction is comparing against it grown by the floor
extend_meters(box, meters) ==
    LET degree_delta == (meters * 1000000) \div 111000
    IN  [ min_latitude |-> box.min_latitude - degree_delta,
          min_longitude |-> box.min_longitude - degree_delta,
          max_latitude |-> box.max_latitude + degree_delta,
          max_longitude |-> box.max_longitude + degree_delta ]

\* Tile::get_bounding_box
get_bounding_box(tile) ==
    [ min_latitude |-> tile_y_to_latitude(tile.tile_y + 1, tile.zoom_level),
      min_longitude |-> tile_x_to_longitude(tile.tile_x, tile.zoom_level),
      max_latitude |-> tile_y_to_latitude(tile.tile_y, tile.zoom_level),
      max_longitude |-> tile_x_to_longitude(tile.tile_x + 1, tile.zoom_level) ]

\* Tile::get_bounding_box_range: the result of BoundingBox::new, which the
\* caller unwraps with expect
get_bounding_box_range(upper_left, lower_right) ==
    BoundingBoxNew(
        tile_y_to_latitude(Min(lower_right.tile_y, upper_left.tile_y), upper_left.zoom_level),
        tile_x_to_longitude(Min(lower_right.tile_x, upper_left.tile_x), upper_left.zoom_level),
        tile_y_to_latitude(Max(lower_right.tile_y, upper_left.tile_y), upper_left.zoom_level),
        tile_x_to_longitude(Max(lower_right.tile_x, upper_left.tile_x), upper_left.zoom_level))

(***************************************************************************)
(* reader.rs                                                                *)
(***************************************************************************)
MAXIMUM_BUFFER_SIZE == 10485760

\* Tag::from_string: key and value are both the whole string
TagFromString(tag) == [key |-> tag, value |-> tag]

TagNew(key, value) == [key |-> key, value |-> value]

\* ReadBuffer::read_tags on the tag ids of a record: [err, tags]
read_tags(tags_array, tag_ids) ==
    IF \E i \in 1..Len(tag_ids) : tag_ids[i] >= Len(tags_array)
    THEN [err |-> "invalid tag ID", tags |-> <<>>]
    ELSE [err |-> "ok", tags |-> [i \in 1..Len(tag_ids) |-> tags_array[tag_ids[i] + 1]]]

\* ReadBuffer::read_from_file_at_offset of a data block: a block record of
\* the file becomes the buffer when the read covers it; "short" is a read that
\* ends behind the file, "large" one above MAXIMUM_BUFFER_SIZE
read_from_file_at_offset(f, sub_file_parameter, offset, length) ==
    LET blocks == f.data[SubFileAt(f, sub_file_parameter.index_start_address)].blocks
        at == offset - sub_file_parameter.start_address
    IN  IF length > MAXIMUM_BUFFER_SIZE THEN [success |-> FALSE, why |-> "large", buffer |-> NONE]
        ELSE IF offset + length > f.file_size
        THEN [success |-> FALSE, why |-> "short", buffer |-> NONE]
        ELSE IF at \in DOMAIN blocks /\ blocks[at].size <= length
        THEN [success |-> TRUE, why |-> "ok", buffer |-> blocks[at]]
        ELSE [success |-> TRUE, why |-> "unmodelled", buffer |-> NONE]

(***************************************************************************)
(* map_file.rs                                                              *)
(***************************************************************************)
WAY_FILTER_ENABLED == TRUE
WAY_FILTER_DISTANCE == 20
BITMASK_INDEX_OFFSET == [hi |-> 2047, lo |-> 16777215]   \* 0x7FFFFFFFF
BITMASK_INDEX_WATER == [hi |-> 32768, lo |-> 0]          \* 0x8000000000
LONGITUDE_MAX == 180000000
LONGITUDE_MIN == -LONGITUDE_MAX
\* 0.001 degrees
DateLineTolerance == 1000
I16_MAX == 32767

Abs(x) == IF x < 0 THEN -x ELSE x

\* the international date line cases of the two node decoders
DateLine(way_node_longitude) ==
    IF way_node_longitude < LONGITUDE_MIN
       /\ Abs(LONGITUDE_MIN - way_node_longitude) < DateLineTolerance
    THEN LONGITUDE_MIN
    ELSE IF way_node_longitude > LONGITUDE_MAX
            /\ Abs(way_node_longitude - LONGITUDE_MAX) < DateLineTolerance
    THEN LONGITUDE_MAX
    ELSE way_node_longitude

LatLongNew(latitude, longitude) == [latitude |-> latitude, longitude |-> longitude]

\* the loop of decode_way_nodes_single_delta from node pos on
RECURSIVE SingleDeltaFrom(_, _, _, _, _)
SingleDeltaFrom(codes, pos, way_node_latitude, way_node_longitude, way_segment) ==
    IF pos > Len(codes) THEN way_segment
    ELSE LET lat == way_node_latitude + codes[pos][1]
             lon == DateLine(way_node_longitude + codes[pos][2])
         IN  SingleDeltaFrom(codes, pos + 1, lat, lon, Append(way_segment, LatLongNew(lat, lon)))

\* MapFile::decode_way_nodes_single_delta: codes are the VBE-S pairs of a ring
decode_way_nodes_single_delta(codes, tile_latitude, tile_longitude) ==
    LET way_node_latitude == tile_latitude + codes[1][1]
        way_node_longitude == tile_longitude + codes[1][2]
    IN  SingleDeltaFrom(codes, 2, way_node_latitude, way_node_longitude,
                        <<LatLongNew(way_node_latitude, way_node_longitude)>>)

\* the loop of decode_way_nodes_double_delta from node pos on
RECURSIVE DoubleDeltaFrom(_, _, _, _, _, _, _)
DoubleDeltaFrom(codes, pos, way_node_lat, way_node_lon, previous_single_delta_latitude, previous_single_delta_longitude, way_segment) ==
    IF pos > Len(codes) THEN way_segment
    ELSE LET single_delta_latitude == codes[pos][1] + previous_single_delta_latitude
             single_delta_longitude == codes[pos][2] + previous_single_delta_longitude
             lat == way_node_lat + single_delta_latitude
             lon == DateLine(way_node_lon + single_delta_longitude)
         IN  DoubleDeltaFrom(codes, pos + 1, lat, lon,
                             single_delta_latitude, single_delta_longitude,
                             Append(way_segment, LatLongNew(lat, lon)))

\* MapFile::decode_way_nodes_double_delta
decode_way_nodes_double_delta(codes, tile_latitude, tile_longitude) ==
    LET way_node_latitude == tile_latitude + codes[1][1]
        way_node_longitude == tile_longitude + codes[1][2]
    IN  DoubleDeltaFrom(codes, 2, way_node_latitude, way_node_longitude, 0, 0,
                        <<LatLongNew(way_node_latitude, way_node_longitude)>>)

\* MapFile::process_way_data_block on the rings of a way data block:
\* [err, way_coordinates]
process_way_data_block(tile_latitude, tile_longitude, double_delta_encoding, rings) ==
    IF Len(rings) < 1 \/ Len(rings) > I16_MAX
    THEN [err |-> "invalid number of way coordinate blocks", way_coordinates |-> <<>>]
    ELSE IF \E r \in 1..Len(rings) : Len(rings[r]) < 2 \/ Len(rings[r]) > I16_MAX
    THEN [err |-> "invalid number of way nodes", way_coordinates |-> <<>>]
    ELSE [ err |-> "ok",
           way_coordinates |->
               [ r \in 1..Len(rings) |->
                   IF double_delta_encoding
                   THEN decode_way_nodes_double_delta(rings[r], tile_latitude, tile_longitude)
                   ELSE decode_way_nodes_single_delta(rings[r], tile_latitude, tile_longitude) ] ]

\* the synthetic tags a feature byte adds, in the order they are pushed
FeatureTags(record, keys) ==
    LET Tags(k) == IF k \in record.features THEN <<TagNew(k, record.text[k])>> ELSE <<>>
    IN  Tags(keys[1]) \o Tags(keys[2]) \o Tags(keys[3])

\* the POI loop of process_pois from record i on: [err, pois]
RECURSIVE PoisFrom(_, _, _, _, _, _, _, _)
PoisFrom(f, records, i, number_of_pois, tile_latitude, tile_longitude, filter, pois) ==
    IF i > number_of_pois THEN [err |-> "ok", pois |-> pois]
    ELSE
    LET rec == records[i]
        latitude == tile_latitude + rec.latitude_offset
        longitude == tile_longitude + rec.longitude_offset
        read == read_tags([t \in 1..Len(f.poi_tags) |-> TagFromString(f.poi_tags[t])],
                          rec.tag_ids)
        tags == read.tags \o FeatureTags(rec, <<"name", "addr:housenumber", "ele">>)
    IN  IF f.debug_file /\ rec.signature # "***POIStart"
        THEN [err |-> "invalid POI signature", pois |-> <<>>]
        ELSE IF read.err # "ok" THEN [err |-> read.err, pois |-> <<>>]
        ELSE PoisFrom(f, records, i + 1, number_of_pois, tile_latitude, tile_longitude, filter,
                 IF ~filter.required \/ BoundingBoxContains(filter.box, latitude, longitude)
                 THEN Append(pois, [ layer |-> rec.layer, tags |-> tags,
                                     position |-> LatLongNew(latitude, longitude) ])
                 ELSE pois)

\* MapFile::process_pois
process_pois(f, tile_latitude, tile_longitude, number_of_pois, bounding_box, filter_required, records) ==
    PoisFrom(f, records, 1, number_of_pois, tile_latitude, tile_longitude,
             [required |-> filter_required, box |-> bounding_box], <<>>)

\* a has_label_tag that looks for the key name only
has_label_tag_name_only(tags) ==
    \E i \in 1..Len(tags) : tags[i].key = "name"

\* MapFile::has_label_tag
has_label_tag(tags) ==
    \E i \in 1..Len(tags) : tags[i].key = "name" \/ tags[i].key = "ref"

\* MapFile::way_intersects_bbox
way_intersects_bbox(way_nodes, bbox) ==
    \E r \in 1..Len(way_nodes) : \E n \in 1..Len(way_nodes[r]) :
        BoundingBoxContains(bbox, way_nodes[r][n].latitude, way_nodes[r][n].longitude)

\* a selector test under which All leaves out the ways that carry a name
SelectorAdmitsUnnamed(selector, rec, tags) ==
    IF selector = "All" THEN "name" \notin rec.features
    ELSE \/ "name" \in rec.features
         \/ "addr:housenumber" \in rec.features
         \/ "ref" \in rec.features
         \/ has_label_tag(tags)

\* the selector test of process_ways: whether a decoded way is added
SelectorAdmits(selector, rec, tags) ==
    \/ selector = "All"
    \/ "name" \in rec.features
    \/ "addr:housenumber" \in rec.features
    \/ "ref" \in rec.features
    \/ has_label_tag(tags)

\* read_optional_label_position keeping the two values in the order read
read_optional_label_position_in_order(values) == values

\* MapFile::read_optional_label_position: values are the two signed integers
\* in the order they stand in the file; the first one read is stored in
\* label_position[1] and the second in label_position[0] (the sequence is
\* 1-based: element 1 is label_position[0], element 2 is label_position[1])
read_optional_label_position(values) == <<values[2], values[1]>>

\* the loop of process_ways over the data blocks of one way record from
\* block b on: [err, ways, decoded]; decoded lists every way that was decoded
\* and passed the way filter, with its feature flags and the label values of
\* its record, whatever the selector
RECURSIVE WayDataBlocksFrom(_, _, _, _, _, _, _, _)
WayDataBlocksFrom(rec, tags, b, way_data_blocks, tile, filter, selector, acc) ==
    IF b > way_data_blocks THEN acc
    ELSE
    LET data == process_way_data_block(tile.latitude, tile.longitude,
                    "double_delta_encoding" \in rec.features, rec.data_blocks[b])
        way_nodes == data.way_coordinates
        label_position == read_optional_label_position(rec.label_position)
        \* latitude takes label_position[1], longitude label_position[0]
        label_pos ==
            IF "label_position" \in rec.features
            THEN LatLongNew(way_nodes[1][1].latitude + label_position[2],
                            way_nodes[1][1].longitude + label_position[1])
            ELSE NONE
        way == [ layer |-> rec.layer, tags |-> tags,
                 way_nodes |-> way_nodes, label_position |-> label_pos ]
    IN  IF data.err # "ok" THEN [err |-> data.err, ways |-> <<>>, decoded |-> <<>>]
        ELSE WayDataBlocksFrom(rec, tags, b + 1, way_data_blocks, tile, filter, selector,
                 IF filter.required /\ WAY_FILTER_ENABLED
                    /\ ~way_intersects_bbox(way_nodes, filter.box)
                 THEN acc
                 ELSE [ err |-> "ok",
                        ways |-> IF SelectorAdmits(selector, rec, tags)
                                 THEN Append(acc.ways, way) ELSE acc.ways,
                        decoded |-> Append(acc.decoded,
                                           [way |-> way, features |-> rec.features,
                                            label_values |-> rec.label_position]) ])

\* the way loop of process_ways from record i on: [err, ways, decoded]
RECURSIVE WaysFrom(_, _, _, _, _, _, _, _, _)
WaysFrom(f, query_parameters, records, i, number_of_ways, tile, filter, selector, acc) ==
    IF i > number_of_ways THEN acc
    ELSE
    LET rec == records[i]
        read == read_tags([t \in 1..Len(f.way_tags) |-> TagFromString(f.way_tags[t])],
                          rec.tag_ids)
        tags == read.tags \o FeatureTags(rec, <<"name", "addr:housenumber", "ref">>)
        \* read_optional_way_data_blocks_byte
        way_data_blocks ==
            IF "data_blocks_byte" \in rec.features THEN Len(rec.data_blocks) ELSE 1
        blocks == WayDataBlocksFrom(rec, tags, 1, way_data_blocks, tile, filter, selector, acc)
        Failed(err) == [err |-> err, ways |-> <<>>, decoded |-> <<>>]
    IN  IF f.debug_file /\ rec.signature # "---WayStart"
        THEN Failed("invalid way signature")
        ELSE IF query_parameters.use_tile_bitmask
                /\ BitAnd(query_parameters.query_tile_bitmask, rec.tile_bitmask) = 0
        THEN WaysFrom(f, query_parameters, records, i + 1, number_of_ways, tile, filter,
                      selector, acc)
        ELSE IF read.err # "ok" THEN Failed(read.err)
        ELSE IF way_data_blocks < 1 THEN Failed("invalid number of way data blocks")
        ELSE IF blocks.err # "ok" THEN blocks
        ELSE WaysFrom(f, query_parameters, records, i + 1, number_of_ways, tile, filter,
                      selector, blocks)

\* MapFile::process_ways
process_ways(f, query_parameters, number_of_ways, bounding_box, filter_required, tile_latitude, tile_longitude, selector, records) ==
    LET way_filter_bbox ==
            IF WAY_FILTER_ENABLED THEN extend_meters(bounding_box, WAY_FILTER_DISTANCE)
            ELSE bounding_box
    IN  WaysFrom(f, query_parameters, records, 1, number_of_ways,
                 LatLongNew(tile_latitude, tile_longitude),
                 [required |-> filter_required, box |-> way_filter_bbox], selector,
                 [err |-> "ok", ways |-> <<>>, decoded |-> <<>>])

\* MapFile::read_zoom_table: the cumulated counts of the rows
RECURSIVE Cumulated(_, _, _)
Cumulated(rows, k, col) ==
    IF k = 0 THEN 0 ELSE Cumulated(rows, k - 1, col) + rows[k][col]

read_zoom_table(sub_file_parameter, block) ==
    [ row \in 1..(sub_file_parameter.zoom_level_max - sub_file_parameter.zoom_level_min + 1) |->
        <<Cumulated(block.zoom_table, row, 1), Cumulated(block.zoom_table, row, 2)>> ]

NoBundle == [pois |-> <<>>, ways |-> <<>>]

\* a process_block that decodes the way section under every selector
selected_ways_decoded(selector, ways) ==
    ways

\* the ways of a bundle: with Selector::Pois the way section is not decoded
selected_ways(selector, ways) ==
    IF selector = "Pois" THEN [err |-> "ok", ways |-> <<>>, decoded |-> <<>>] ELSE ways

\* MapFile::process_block on a loaded block:
\* [status, err, bundle, row, filter_required, decoded]; status is "ok", "err"
\* (the Err the function returns) or "panic" (the zoom table indexed outside
\* its rows)
process_block(f, query_parameters, sub_file_parameter, bounding_box, tile_latitude, tile_longitude, selector, block) ==
    LET zoom_table == read_zoom_table(sub_file_parameter, block)
        zoom_table_row == query_parameters.query_zoom_level - sub_file_parameter.zoom_level_min
        pois_on_query_zoom_level == zoom_table[zoom_table_row + 1][1]
        ways_on_query_zoom_level == zoom_table[zoom_table_row + 1][2]
        filter_required ==
            query_parameters.query_zoom_level > sub_file_parameter.base_zoom_level
        pois == process_pois(f, tile_latitude, tile_longitude, pois_on_query_zoom_level,
                             bounding_box, filter_required, block.pois)
        ways == selected_ways(selector,
                    process_ways(f, query_parameters, ways_on_query_zoom_level, bounding_box,
                                 filter_required, tile_latitude, tile_longitude, selector,
                                 block.ways))
        Out(status, err, bundle, decoded) ==
            [ status |-> status, err |-> err, bundle |-> bundle, decoded |-> decoded,
              row |-> zoom_table_row, filter_required |-> filter_required ]
    IN  IF f.debug_file /\ block.signature # "###TileStart"
        THEN Out("err", "invalid block signature", NoBundle, <<>>)
        ELSE IF zoom_table_row < 0 \/ zoom_table_row >= Len(zoom_table)
        THEN Out("panic", "index out of bounds", NoBundle, <<>>)
        ELSE IF ~block.first_way_offset_in_buffer
        THEN Out("err", "invalid first way offset", NoBundle, <<>>)
        ELSE IF pois.err # "ok" THEN Out("err", pois.err, NoBundle, <<>>)
        ELSE IF ways.err # "ok" THEN Out("err", ways.err, NoBundle, <<>>)
        ELSE Out("ok", "ok", [pois |-> pois.pois, ways |-> ways.ways], ways.decoded)

\* what the loop records for a block it did not decode
NotDecoded ==
    [ status |-> "none", err |-> "none", bundle |-> NoBundle, decoded |-> <<>>,
      row |-> 0, filter_required |-> FALSE ]

\* a size that keeps its sign
AsUsize_signed(x) == x

\* (x as usize) of a block size: a negative difference is a size above every
\* buffer the reader accepts
AsUsize(x) == IF x < 0 THEN MAXIMUM_BUFFER_SIZE + 1 ELSE x

\* an is_water that does not ask whether a block was seen
is_water_unseen(query_is_water, query_read_water_info) ==
    query_is_water

\* result.is_water at the end of process_blocks
is_water(query_is_water, query_read_water_info) ==
    query_is_water /\ query_read_water_info

\* the cells of the block rectangle in the order process_blocks visits them
BlockCells(query_parameters) ==
    LET w == query_parameters.to_block_x - query_parameters.from_block_x + 1
        h == query_parameters.to_block_y - query_parameters.from_block_y + 1
    IN  IF w <= 0 \/ h <= 0 THEN <<>>
        ELSE [ k \in 1..(w * h) |->
                 [ row |-> query_parameters.from_block_y + (k - 1) \div w,
                   column |-> query_parameters.from_block_x + ((k - 1) % w) ] ]

\* the state process_blocks starts its loops in; entries, lookups, reads and
\* outcomes record what the loops did
ProcessBlocksStart(c) ==
    [ cache |-> c, query_is_water |-> TRUE, query_read_water_info |-> FALSE,
      poi_way_bundles |-> <<>>, status |-> "ok",
      entries |-> <<>>, lookups |-> <<>>, reads |-> <<>>, outcomes |-> <<>> ]

\* one iteration of the inner loop of process_blocks
ProcessBlocksStep(f, query_parameters, sub_file_parameter, bounding_box, selector, cell, st) ==
    LET block_number == cell.row * sub_file_parameter.blocks_width + cell.column
        is_last == block_number + 1 = sub_file_parameter.number_of_blocks
        Note(s, what, detail, decoding) ==
            [s EXCEPT !.outcomes = Append(@, [block_number |-> block_number, outcome |-> what,
                                             detail |-> detail, block |-> decoding])]
        Outcome(s, what, detail) == Note(s, what, detail, NotDecoded)
        tile_latitude == tile_y_to_latitude(sub_file_parameter.boundary_tile_top + cell.row,
                                            sub_file_parameter.base_zoom_level)
        tile_longitude == tile_x_to_longitude(sub_file_parameter.boundary_tile_left + cell.column,
                                              sub_file_parameter.base_zoom_level)
        \* the match on the result of process_block
        Decoded(s4, block) ==
            IF block.status = "panic"
            THEN [Note(s4, "panic", block.err, block) EXCEPT !.status = "panic"]
            ELSE IF block.status = "err" THEN Note(s4, "decode error", block.err, block)
            ELSE [Note(s4, "bundle", "ok", block) EXCEPT
                    !.poi_way_bundles = Append(@, block.bundle)]
        \* the match on the result of read_from_file_at_offset
        Loaded(s4, read) ==
            IF ~read.success THEN Outcome(s4, "skipped", "failed to read")
            ELSE IF read.why # "ok"
            THEN [Outcome(s4, "unmodelled", read.why) EXCEPT !.status = "unmodelled"]
            ELSE Decoded(s4, process_block(f, query_parameters, sub_file_parameter,
                                           bounding_box, tile_latitude, tile_longitude,
                                           selector, read.buffer))
        \* from the size of the block on
        Sized(s3, file_position, current_block_size) ==
            IF current_block_size = 0 THEN Outcome(s3, "skipped", "zero size")
            ELSE Loaded([s3 EXCEPT !.reads = Append(@, [position |-> file_position,
                                                        size |-> current_block_size])],
                        read_from_file_at_offset(f, sub_file_parameter, file_position,
                                                 current_block_size))
        \* from the pointer of the next block on; nxt is the index entry of
        \* block_number + 1, looked up unless the block is the last one
        Pointed(s2, current_block_pointer, nxt) ==
            LET s3 == IF is_last THEN s2
                      ELSE [s2 EXCEPT !.cache = nxt.cache,
                                      !.lookups = Append(@, block_number + 1)]
                next_ptr == LongAnd(nxt.entry, BITMASK_INDEX_OFFSET)
                next_block_pointer ==
                    IF is_last THEN sub_file_parameter.sub_file_size ELSE next_ptr.lo
            IN  IF ~is_last /\ nxt.err # "ok" THEN Outcome(s3, "index error", nxt.err)
                ELSE IF ~is_last /\ LongGtInt(next_ptr, sub_file_parameter.sub_file_size)
                THEN Outcome(s3, "skipped", "next pointer > sub_file_size")
                ELSE Sized(s3, sub_file_parameter.start_address + current_block_pointer.lo,
                           AsUsize(next_block_pointer - current_block_pointer.lo))
        \* from the index entry cur of the block on
        Entered(cur) ==
            LET s1 == [st EXCEPT !.cache = cur.cache, !.lookups = Append(@, block_number)]
                s2 == [s1 EXCEPT
                         !.query_is_water =
                             IF @ THEN ~LongIsZero(LongAnd(cur.entry, BITMASK_INDEX_WATER))
                             ELSE @,
                         !.query_read_water_info = IF st.query_is_water THEN TRUE ELSE @,
                         !.entries = Append(@, [block_number |-> block_number,
                                                entry |-> cur.entry])]
                current_block_pointer == LongAnd(cur.entry, BITMASK_INDEX_OFFSET)
            IN  IF cur.err # "ok" THEN Outcome(s1, "index error", cur.err)
                ELSE IF LongIsZero(current_block_pointer)
                THEN Outcome(s2, "skipped", "zero pointer")
                ELSE IF LongGtInt(current_block_pointer, sub_file_parameter.sub_file_size)
                THEN Outcome(s2, "skipped", "pointer > sub_file_size")
                ELSE Pointed(s2, current_block_pointer,
                             get_index_entry(s2.cache, f, sub_file_parameter, block_number + 1))
    IN  Entered(get_index_entry(st.cache, f, sub_file_parameter, block_number))

\* the loops of process_blocks from cell i on
RECURSIVE ProcessBlocksFrom(_, _, _, _, _, _, _, _)
ProcessBlocksFrom(f, query_parameters, sub_file_parameter, bounding_box, selector, cells, i, st) ==
    IF i > Len(cells) \/ st.status # "ok" THEN st
    ELSE ProcessBlocksFrom(f, query_parameters, sub_file_parameter, bounding_box, selector,
             cells, i + 1,
             ProcessBlocksStep(f, query_parameters, sub_file_parameter, bounding_box,
                               selector, cells[i], st))

\* MapFile::process_blocks: the final loop state and the MapReadResult
process_blocks(c, f, query_parameters, sub_file_parameter, bounding_box, selector) ==
    LET Finished(st) ==
            [ st |-> st,
              result |-> [ poi_way_bundles |-> st.poi_way_bundles,
                           is_water |-> is_water(st.query_is_water,
                                                 st.query_read_water_info) ] ]
    IN  Finished(ProcessBlocksFrom(f, query_parameters, sub_file_parameter, bounding_box,
                                   selector, BlockCells(query_parameters), 1,
                                   ProcessBlocksStart(c)))

EmptyResult == [poi_way_bundles |-> <<>>, is_water |-> FALSE]

\* a range check that compares the columns only
invalid_range_columns(upper_left, lower_right) ==
    upper_left.tile_x > lower_right.tile_x

\* the range check of read_map_data_impl
invalid_range(upper_left, lower_right) ==
    upper_left.tile_x > lower_right.tile_x \/ upper_left.tile_y > lower_right.tile_y

\* MapFile::read_map_data_impl on a handle with index cache c, file f and
\* header h: [status, err, cache, result, query_zoom_level, sub_file_parameter,
\* st]; status is "ok" (Ok(result)), "err" (Err(err)) or "panic"
read_map_data_impl(c, f, h, upper_left, lower_right, selector) ==
    LET query_zoom_level == get_query_zoom_level(h, upper_left.zoom_level)
        sub_file_parameter == get_sub_file_parameter(h, query_zoom_level)
        query_parameters ==
            calculate_blocks(
                calculate_base_tiles(
                    [QueryParametersNew EXCEPT !.query_zoom_level = query_zoom_level],
                    upper_left, lower_right, sub_file_parameter),
                sub_file_parameter)
        bounding_box == get_bounding_box_range(upper_left, lower_right)
        Processed(blocks) ==
            [ status |-> blocks.st.status,
              err |-> IF blocks.st.status = "ok" THEN "ok" ELSE "index out of bounds",
              cache |-> blocks.st.cache,
              result |-> IF blocks.st.status = "ok" THEN blocks.result ELSE EmptyResult,
              query_zoom_level |-> query_zoom_level,
              sub_file_parameter |-> sub_file_parameter,
              st |-> blocks.st ]
        Early(status, err, sub) ==
            [ status |-> status, err |-> err, cache |-> c, result |-> EmptyResult,
              query_zoom_level |-> query_zoom_level, sub_file_parameter |-> sub,
              st |-> ProcessBlocksStart(c) ]
    IN  IF invalid_range(upper_left, lower_right)
        THEN Early("err", "upperLeft tile must be above and left of lowerRight tile", NONE)
        ELSE IF sub_file_parameter = NONE
        THEN Early("err", "no sub-file for zoom level", NONE)
        ELSE IF bounding_box.err # "ok"
        THEN Early("panic", "Failed to create bounding box", sub_file_parameter)
        ELSE Processed(process_blocks(c, f, query_parameters, sub_file_parameter,
                                      bounding_box.box, selector))

(***************************************************************************)
(* The header of an opened file: MapFile::new parses the header            *)
(* (read_header -> read_sub_file_parameters); afterwards the zoom lookups   *)
(* are applied to it.                                                       *)
(***************************************************************************)
\* the bounding box of the files of the model: 1..60 degrees north,
\* 1..100 degrees east
ModelBoundingBox ==
    [ min_latitude |-> 1000000, min_longitude |-> 1000000,
      max_latitude |-> 60000000, max_longitude |-> 100000000 ]

\* the file position the first sub-file starts at, and the distance between
\* the starts of consecutive sub-files
SubFileSpacing == 1000

ZoomRanges(maxZoom) == {r \in (0..maxZoom) \X (0..maxZoom) : r[1] <= r[2]}

SeqsUpTo(S, n) == UNION {[1..k -> S] : k \in 1..n}

\* the sub-file descriptors of a header whose zoom ranges are rs, sub-file i
\* at base zoom base[i]
DeclaredSubFiles(rs, base) ==
    [ i \in 1..Len(rs) |->
        [ base_zoom_level |-> base[i],
          zoom_level_min |-> rs[i][1],
          zoom_level_max |-> rs[i][2],
          start_address |-> SubFileSpacing * i,
          sub_file_size |-> SubFileSpacing ] ]

HeaderOnlyFile(decls) ==
    [ file_size |-> SubFileSpacing * (Len(decls) + 1),
      bounding_box |-> ModelBoundingBox,
      debug_file |-> FALSE,
      poi_tags |-> <<>>,
      way_tags |-> <<>>,
      sub_files |-> decls,
      data |-> <<>> ]

\* MapFile::new: the header is parsed, the handle exists when that succeeds
ParsedHeader(f) ==
    read_sub_file_parameters(f.sub_files, f.file_size, f.bounding_box, f.debug_file)

\* the declared sub-files as the parser built them (temp_sub_file_parameters)
Declared == ParsedHeader(file).temp

QueryZooms == 0..(MaxHeaderZoom + ZoomSlack)

InitHeader ==
    /\ \E rs \in SeqsUpTo(ZoomRanges(MaxHeaderZoom), MaxSubFiles) :
          file = HeaderOnlyFile(DeclaredSubFiles(rs, [i \in 1..Len(rs) |-> rs[i][1]]))
    /\ ParsedHeader(file).err = "ok"
    /\ header = ParsedHeader(file).header
    /\ zoom_level_min = 0
    /\ zoom_level_max = U8_MAX
    /\ cache = IndexCacheNew(INDEX_CACHE_SIZE)
    /\ buffer_data = <<>>
    /\ buffer_position = 0
    /\ last = [op |-> "new"]

GetSubFileParameter ==
    /\ \E z \in QueryZooms :
          last' = [ op |-> "get_sub_file_parameter", zoom |-> z,
                    result |-> get_sub_file_parameter(header, z) ]
    /\ UNCHANGED <<buffer_data, buffer_position, file, header, zoom_level_min, zoom_level_max, cache>>

GetQueryZoomLevel ==
    /\ \E z \in QueryZooms :
          last' = [ op |-> "get_query_zoom_level", zoom |-> z,
                    result |-> get_query_zoom_level(header, z) ]
    /\ UNCHANGED <<buffer_data, buffer_position, file, header, zoom_level_min, zoom_level_max, cache>>

NextHeader == GetSubFileParameter \/ GetQueryZoomLevel

SpecHeader == InitHeader /\ [][NextHeader]_vars

InRange(p, z) == p.zoom_level_min <= z /\ z <= p.zoom_level_max

\* C8 as stated: after a successful header parse, for every declared sub-file
\* s and every zoom z with s.zoom_level_min <= z <= s.zoom_level_max, the
\* zoom -> sub-file lookup returns s for z.
C8_LookupReturnsEveryDeclared ==
    last.op = "get_sub_file_parameter" =>
        \A i \in 1..Len(Declared) :
            InRange(Declared[i], last.zoom) => last.result = Declared[i]

\* C8 amended: for every declared sub-file s and every zoom z in its range the
\* lookup returns a declared sub-file whose range contains z; it returns s
\* itself whenever s is the only declared sub-file whose range contains z.
C8_LookupReturnsContaining ==
    last.op = "get_sub_file_parameter" =>
        \A i \in 1..Len(Declared) :
            InRange(Declared[i], last.zoom) =>
                /\ last.result # NONE
                /\ \E k \in 1..Len(Declared) : last.result = Declared[k]
                /\ InRange(last.result, last.zoom)
                /\ (\A k \in 1..Len(Declared) :
                        InRange(Declared[k], last.zoom) => k = i)
                   => last.result = Declared[i]

\* a header declares two sub-files and a lookup at a zoom level that only the
\* second one contains returned the second one
C8_Witness ==
    /\ last.op = "get_sub_file_parameter"
    /\ Len(Declared) = 2
    /\ Cardinality({i \in 1..Len(Declared) : InRange(Declared[i], last.zoom)}) = 1
    /\ InRange(Declared[2], last.zoom)
    /\ last.result = Declared[2]

\* the sub-file the dense table is specified to hold for zoom z: the first
\* declared sub-file whose range contains z, else the last declared one
FirstDeclaredOrLast(z) ==
    LET k == FindContaining(Declared, z)
    IN  IF k # 0 THEN Declared[k] ELSE Declared[Len(Declared)]

\* C9: the zoom -> sub-file table has length max(zoom_max) + 1, and for every
\* zoom z of the table get_sub_file_parameter(z) resolves to the first declared
\* sub-file whose range contains z, or to the last declared sub-file when no
\* declared range contains z.
C9_LookupIsFirstDeclaredOrLast ==
    /\ Len(header.sub_file_parameters) = header.zoom_level_maximum + 1
    /\ last.op = "get_sub_file_parameter" /\ last.zoom < Len(header.sub_file_parameters)
       => last.result = FirstDeclaredOrLast(last.zoom)

(***************************************************************************)
(* The files of the handle specification.  A file is built from a layout    *)
(* (its declared sub-files), the content of its blocks and its index.       *)
(***************************************************************************)
\* the largest zoom level of a query tile
MaxTileZoom == 3

\* the bytes a data block takes in a file of the model
BlockBytes == 100

Texts == [k \in {"name", "addr:housenumber", "ref", "ele"} |->
            IF k = "name" THEN "Main" ELSE IF k = "ref" THEN "A1" ELSE "7"]

PoiDictionary == <<"amenity=cafe", "tourism=viewpoint">>
WayDictionary == <<"highway=residential", "name", "ref", "addr:housenumber">>

\* rings of (latitude, longitude) offsets: one near the origin of the block's
\* tile, one far from it, one with a single node
NearRing == << <<0, 0>>, <<100, 100>>, <<20, -30>> >>
FarRing == << <<5000, 5000>>, <<100, -100>> >>
ShortRing == << <<0, 0>> >>

WayRecord(tile_bitmask, layer, tag_ids, features, data_blocks) ==
    [ signature |-> "---WayStart", tile_bitmask |-> tile_bitmask, layer |-> layer,
      tag_ids |-> tag_ids, features |-> features, text |-> Texts,
      label_position |-> <<10, 20>>, data_blocks |-> data_blocks ]

PoiRecord(latitude_offset, longitude_offset, layer, tag_ids, features) ==
    [ signature |-> "***POIStart", latitude_offset |-> latitude_offset,
      longitude_offset |-> longitude_offset, layer |-> layer,
      tag_ids |-> tag_ids, features |-> features, text |-> Texts ]

\* the rows of the zoom table of a block of a sub-file with that many zoom
\* levels: the POIs and ways added at each level
ZoomTableRows(rows) ==
    IF rows = 1 THEN << <<2, 7>> >>
    ELSE IF rows = 2 THEN << <<1, 4>>, <<1, 3>> >>
    ELSE [r \in 1..rows |-> IF r = 1 THEN <<1, 3>> ELSE IF r = 2 THEN <<1, 2>>
                            ELSE IF r = 3 THEN <<0, 2>> ELSE <<0, 0>>]

Flaws == { "none", "block signature", "poi signature", "way signature",
           "poi tag id", "way tag id", "first way offset", "way nodes" }

\* block i of sub-file k, with the flaw
BlockContent(k, i, rows, flaw) ==
    [ size |-> BlockBytes,
      signature |-> IF flaw = "block signature" THEN "###Corrupted" ELSE "###TileStart",
      zoom_table |-> ZoomTableRows(rows),
      first_way_offset_in_buffer |-> flaw # "first way offset",
      pois |->
        << [ PoiRecord(0, 0, i, IF flaw = "poi tag id" THEN <<0, 9>> ELSE <<0>>, {"name"})
               EXCEPT !.signature = IF flaw = "poi signature" THEN "***Corrupted" ELSE @ ],
           PoiRecord(1000, 2000, i, <<1>>, {"ele", "addr:housenumber"}) >>,
      ways |->
        << [ WayRecord(65535, k, IF flaw = "way tag id" THEN <<4>> ELSE <<0>>, {},
                       << IF flaw = "way nodes" THEN <<NearRing, ShortRing>>
                          ELSE <<NearRing>> >>)
               EXCEPT !.signature = IF flaw = "way signature" THEN "---Corrupted" ELSE @ ],
           WayRecord(65535, k, <<0>>, {"name"}, << <<FarRing>> >>),
           WayRecord(51, k, <<0, 1>>, {}, << <<NearRing>> >>),
           WayRecord(65535, k, <<2>>, {"double_delta_encoding"}, << <<NearRing>> >>),
           WayRecord(65535, k, <<0>>, {"addr:housenumber", "data_blocks_byte",
                                       "label_position"},
                     << <<NearRing>>, <<FarRing, NearRing>> >>),
           WayRecord(65535, k, <<>>, {"ref", "label_position"}, << <<NearRing>> >>),
           WayRecord(65535, k, <<3>>, {}, << <<NearRing>> >>) >> ]

\* the block grid of a sub-file at a base zoom level
GridOf(base_zoom_level) ==
    SubFileParameterBuild([ base_zoom_level |-> base_zoom_level, zoom_level_min |-> 0,
                            zoom_level_max |-> 0, start_address |-> 0,
                            index_start_address |-> 0, sub_file_size |-> 0,
                            bounding_box |-> ModelBoundingBox ])

\* offset of block i from the start of a sub-file of n blocks
BlockOffset(i, n, debug) ==
    (IF debug THEN SIGNATURE_LENGTH_INDEX ELSE 0) + n * BYTES_PER_INDEX_ENTRY + i * BlockBytes

\* an index entry of block i: kind says where its pointer goes
PointerKinds == {"block", "zero", "beyond", "next"}

IndexWord(entry, i, n, debug) ==
    [ hi |-> IF entry.water THEN 32768 ELSE 0,
      lo |-> IF entry.kind = "block" THEN BlockOffset(i, n, debug)
             ELSE IF entry.kind = "next" THEN BlockOffset(i + 1, n, debug)
             ELSE IF entry.kind = "beyond" THEN BlockOffset(n, n, debug) + 1
             ELSE 0 ]

RECURSIVE Flatten(_)
Flatten(ss) == IF ss = <<>> THEN <<>> ELSE Head(ss) \o Flatten(Tail(ss))

SoundEntry == [kind |-> "block", water |-> FALSE]

\* a file: layout[k] = <<base zoom, zoom min, zoom max>>; entries[k][i + 1] is
\* the index entry of block i of sub-file k; the flaw is in block 0 of every
\* sub-file
MapFileOf(layout, debug, flaw, entries) ==
    [ file_size |-> SubFileSpacing * (Len(layout) + 1),
      bounding_box |-> ModelBoundingBox,
      debug_file |-> debug,
      poi_tags |-> PoiDictionary,
      way_tags |-> WayDictionary,
      sub_files |->
        [ k \in 1..Len(layout) |->
            [ base_zoom_level |-> layout[k][1],
              zoom_level_min |-> layout[k][2],
              zoom_level_max |-> layout[k][3],
              start_address |-> SubFileSpacing * k,
              sub_file_size |->
                  BlockOffset(GridOf(layout[k][1]).number_of_blocks,
                              GridOf(layout[k][1]).number_of_blocks, debug) ] ],
      data |->
        [ k \in 1..Len(layout) |->
            LET n == GridOf(layout[k][1]).number_of_blocks
                rows == layout[k][3] - layout[k][2] + 1
            IN  [ index |-> Flatten([i \in 1..n |->
                                FiveBytes(IndexWord(entries[k][i], i - 1, n, debug))]),
                  blocks |-> [ o \in {BlockOffset(i, n, debug) : i \in 0..(n - 1)} |->
                                 LET i == (o - BlockOffset(0, n, debug)) \div BlockBytes
                                 IN  BlockContent(k, i, rows,
                                                  IF i = 0 THEN flaw ELSE "none") ] ] ] ]

SoundIndex(layout) ==
    [ k \in 1..Len(layout) |-> [i \in 1..GridOf(layout[k][1]).number_of_blocks |-> SoundEntry] ]

Layouts ==
    { << <<1, 1, 2>> >>,
      << <<2, 1, 3>> >>,
      << <<0, 0, 0>>, <<2, 2, 3>> >>,
      << <<0, 0, 1>>, <<2, 2, 3>> >> }

\* the flaws a file without debug signatures can have
PlainFlaws == {"none", "poi tag id", "way tag id", "first way offset", "way nodes"}

\* the files whose blocks vary, with a sound index: the one-block sub-file
\* without debug signatures, the two-block sub-file with them, and one file of
\* every other layout
ContentFiles ==
    { MapFileOf(<< <<1, 1, 2>> >>, FALSE, flaw, SoundIndex(<< <<1, 1, 2>> >>)) :
        flaw \in PlainFlaws }
    \cup { MapFileOf(<< <<2, 1, 3>> >>, TRUE, flaw, SoundIndex(<< <<2, 1, 3>> >>)) :
             flaw \in Flaws \ {"poi tag id", "first way offset", "way nodes"} }
    \cup { MapFileOf(layout, FALSE, "none", SoundIndex(layout)) : layout \in Layouts }

IndexEntries ==
    { [kind |-> "block", water |-> TRUE], [kind |-> "block", water |-> FALSE],
      [kind |-> "zero", water |-> TRUE], [kind |-> "zero", water |-> FALSE],
      [kind |-> "beyond", water |-> TRUE], [kind |-> "next", water |-> FALSE] }

\* the files whose index varies: the two-block sub-file, sound blocks
IndexFiles ==
    { MapFileOf(<< <<2, 1, 3>> >>, FALSE, "none", << <<e0, e1>> >>) :
        e0 \in IndexEntries,
        e1 \in {e \in IndexEntries : e.kind # "zero" \/ e.water} }

\* an empty map: a well-formed file without features, every block of every
\* sub-file has size zero (all pointers are the end of the index, which is the
\* end of the sub-file)
EmptyMapFileOf(layout, debug) ==
    [ MapFileOf(layout, debug, "none", SoundIndex(layout)) EXCEPT
        !.sub_files =
            [ k \in 1..Len(layout) |->
                [ @[k] EXCEPT !.sub_file_size =
                    BlockOffset(0, GridOf(layout[k][1]).number_of_blocks, debug) ] ],
        !.data =
            [ k \in 1..Len(layout) |->
                LET n == GridOf(layout[k][1]).number_of_blocks
                IN  [ index |-> Flatten([i \in 1..n |->
                                    FiveBytes([hi |-> 0, lo |-> BlockOffset(0, n, debug)])]),
                      blocks |-> [o \in {} |-> <<>>] ] ] ]

EmptyMapFiles ==
    { EmptyMapFileOf(layout, FALSE) : layout \in Layouts }
    \cup { EmptyMapFileOf(<< <<2, 1, 3>> >>, TRUE) }

MapFiles == ContentFiles \cup IndexFiles \cup EmptyMapFiles

(***************************************************************************)
(* The handle: MapFile::new on a file, then restrict_to_zoom_range and the  *)
(* reads.                                                                   *)
(***************************************************************************)
\* the points query tiles are taken around (micro-degrees)
ModelPoints ==
    { <<60000000, 10000000>>, <<30000000, 95000000>>, <<-30000000, 50000000>> }

TileNew(tile_x, tile_y, zoom_level, tile_size) ==
    [tile_x |-> tile_x, tile_y |-> tile_y, zoom_level |-> zoom_level, tile_size |-> tile_size]

\* the pixel size of the query tiles
TileSize == 256

Tiles ==
    { TileNew(longitude_to_tile_x(p[2], z), latitude_to_tile_y(p[1], z), z, TileSize) :
        p \in ModelPoints, z \in 0..MaxTileZoom }

Selectors == {"All", "Pois", "Named"}

RestrictRanges == { <<1, 1>> }

Init ==
    /\ file \in MapFiles
    /\ ParsedHeader(file).err = "ok"
    /\ header = ParsedHeader(file).header
    /\ zoom_level_min = 0
    /\ zoom_level_max = U8_MAX
    /\ cache = IndexCacheNew(INDEX_CACHE_SIZE)
    /\ buffer_data = <<>>
    /\ buffer_position = 0
    /\ last = [op |-> "new", status |-> "ok"]

\* a panic ends the thread that holds the handle
Alive == last.status # "panic"

\* a read through read_map_data_impl and what it leaves behind
Read(op, upper_left, lower_right, selector) ==
    \E r \in {read_map_data_impl(cache, file, header, upper_left, lower_right, selector)} :
        /\ Alive
        /\ cache' = r.cache
        /\ last' = [ op |-> op, upper_left |-> upper_left, lower_right |-> lower_right,
                     selector |-> selector, status |-> r.status, err |-> r.err,
                     result |-> r.result, query_zoom_level |-> r.query_zoom_level,
                     sub_file_parameter |-> r.sub_file_parameter,
                     entries |-> r.st.entries, lookups |-> r.st.lookups,
                     reads |-> r.st.reads, outcomes |-> r.st.outcomes ]
        /\ UNCHANGED <<buffer_data, buffer_position, file, header, zoom_level_min, zoom_level_max>>

ReadMapData == \E tile \in Tiles : Read("read_map_data", tile, tile, "All")

ReadPoiData == \E tile \in Tiles : Read("read_poi_data", tile, tile, "Pois")

ReadNamedItems == \E tile \in Tiles : Read("read_named_items", tile, tile, "Named")

\* read_map_data_impl over a rectangle of tiles of one zoom level
ReadMapDataImpl ==
    \E upper_left \in Tiles, lower_right \in Tiles :
        /\ upper_left.zoom_level = lower_right.zoom_level
        /\ upper_left # lower_right
        /\ Read("read_map_data_impl", upper_left, lower_right, "All")

RestrictToZoomRange ==
    /\ Alive
    /\ \E r \in RestrictRanges :
          /\ zoom_level_max' = r[2]
          /\ zoom_level_min' = r[1]
          /\ last' = [op |-> "restrict_to_zoom_range", status |-> "ok", min |-> r[1], max |-> r[2]]
    /\ UNCHANGED <<buffer_data, buffer_position, file, header, cache>>

Next ==
    \/ ReadMapData
    \/ ReadPoiData
    \/ ReadNamedItems
    \/ ReadMapDataImpl
    \/ RestrictToZoomRange

Spec == Init /\ [][Next]_vars

ReadOps == {"read_map_data", "read_poi_data", "read_named_items", "read_map_data_impl"}


IsRead == last.op \in ReadOps

\* the read got past the range check of read_map_data_impl
PassedRangeCheck ==
    /\ IsRead
    /\ last.upper_left.tile_x <= last.lower_right.tile_x
    /\ last.upper_left.tile_y <= last.lower_right.tile_y

\* bit 39 of an index word
WaterBit(entry) == (entry.hi \div 32768) % 2 = 1

\* the index word the file holds for a block of the sub-file the read used
IndexWordInFile(block_number) ==
    get_five_bytes_long(
        file.data[SubFileAt(file, last.sub_file_parameter.index_start_address)].index,
        block_number * BYTES_PER_INDEX_ENTRY)

\* C1: for every read that returns a result, is_water is true if and only if
\* the read obtained the index entry of at least one block of its rectangle
\* and every entry it obtained, which is the five-byte word the file holds for
\* that block, has bit 39 set.
C1_IsWaterIffAllSeenBlocksWater ==
    (IsRead /\ last.status = "ok") =>
        /\ \A i \in 1..Len(last.entries) :
               last.entries[i].entry = IndexWordInFile(last.entries[i].block_number)
        /\ last.result.is_water
           <=> /\ last.entries # <<>>
               /\ \A i \in 1..Len(last.entries) : WaterBit(last.entries[i].entry)

\* a read over two blocks whose entries both carry the water bit answered
\* is_water = TRUE
C1_Witness ==
    /\ IsRead
    /\ last.status = "ok"
    /\ Len(last.entries) = 2
    /\ \A i \in 1..2 : WaterBit(last.entries[i].entry)
    /\ last.result.is_water

SeqRange(q) == {q[i] : i \in 1..Len(q)}

\* read_map_data on the tile of the last read, on the handle as it is now
ReadMapDataNow ==
    read_map_data_impl(cache, file, header, last.upper_left, last.upper_left, "All")

\* C2: whenever read_named_items(tile) returns a result, read_map_data(tile)
\* on the same handle returns a result with as many bundles, and bundle by
\* bundle the POIs are the same and every way of the named result is a way of
\* the full result.
C2_NamedWithinAll ==
    (last.op = "read_named_items" /\ last.status = "ok") =>
        /\ ReadMapDataNow.status = "ok"
        /\ Len(ReadMapDataNow.result.poi_way_bundles) = Len(last.result.poi_way_bundles)
        /\ \A i \in 1..Len(last.result.poi_way_bundles) :
               /\ last.result.poi_way_bundles[i].pois
                  = ReadMapDataNow.result.poi_way_bundles[i].pois
               /\ SeqRange(last.result.poi_way_bundles[i].ways)
                  \subseteq SeqRange(ReadMapDataNow.result.poi_way_bundles[i].ways)

\* read_named_items returned a bundle with POIs and with ways, and fewer ways
\* than read_map_data returns for the tile
C2_Witness ==
    /\ last.op = "read_named_items"
    /\ last.status = "ok"
    /\ \E i \in 1..Len(last.result.poi_way_bundles) :
          /\ last.result.poi_way_bundles[i].pois # <<>>
          /\ last.result.poi_way_bundles[i].ways # <<>>
          /\ Len(last.result.poi_way_bundles[i].ways)
             < Len(ReadMapDataNow.result.poi_way_bundles[i].ways)

\* C3: every bundle read_poi_data returns has an empty way list, and no way
\* of any block was decoded for it.
C3_PoiDataHasNoWays ==
    (last.op = "read_poi_data" /\ last.status = "ok") =>
        /\ \A i \in 1..Len(last.result.poi_way_bundles) :
               last.result.poi_way_bundles[i].ways = <<>>
        /\ \A k \in 1..Len(last.outcomes) : last.outcomes[k].block.decoded = <<>>

\* read_poi_data returned a bundle with POIs from a block for which
\* read_map_data returns ways
C3_Witness ==
    /\ last.op = "read_poi_data"
    /\ last.status = "ok"
    /\ \E i \in 1..Len(last.result.poi_way_bundles) :
          /\ last.result.poi_way_bundles[i].pois # <<>>
          /\ i <= Len(ReadMapDataNow.result.poi_way_bundles)
          /\ ReadMapDataNow.result.poi_way_bundles[i].ways # <<>>

\* the number of the bundle the k-th visited block added
BundleOf(k) == Cardinality({j \in 1..k : last.outcomes[j].outcome = "bundle"})

\* a decoded way has one of the three feature flags, or a tag with key name
\* or ref
NamedWay(d) ==
    \/ d.features \cap {"name", "addr:housenumber", "ref"} # {}
    \/ \E i \in 1..Len(d.way.tags) : d.way.tags[i].key \in {"name", "ref"}

WaysOf(ds) == [i \in 1..Len(ds) |-> ds[i].way]

\* C4: for every block a read_named_items or read_map_data turned into a
\* bundle, the ways of the bundle are, in order, under Named the decoded ways
\* (those that passed the tile bitmask and the way filter) with has_name,
\* has_house_number or has_ref or with a tag of key name or ref, and under All
\* all the decoded ways.
C4_NamedSelectsLabelledWays ==
    (IsRead /\ last.status = "ok" /\ last.selector \in {"Named", "All"}) =>
        \A k \in 1..Len(last.outcomes) :
            last.outcomes[k].outcome = "bundle" =>
                last.result.poi_way_bundles[BundleOf(k)].ways
                = IF last.selector = "Named"
                  THEN WaysOf(SelectSeq(last.outcomes[k].block.decoded, NamedWay))
                  ELSE WaysOf(last.outcomes[k].block.decoded)

\* read_named_items decoded a way without any of the three flags whose tags
\* have the key ref and returned it, and decoded a way it did not return
C4_Witness ==
    /\ last.op = "read_named_items"
    /\ last.status = "ok"
    /\ \E k \in 1..Len(last.outcomes) :
          /\ last.outcomes[k].outcome = "bundle"
          /\ \E d \in SeqRange(last.outcomes[k].block.decoded) :
                /\ d.features \cap {"name", "addr:housenumber", "ref"} = {}
                /\ \E i \in 1..Len(d.way.tags) : d.way.tags[i].key = "ref"
                /\ d.way \in SeqRange(last.result.poi_way_bundles[BundleOf(k)].ways)
          /\ \E d \in SeqRange(last.outcomes[k].block.decoded) :
                d.way \notin SeqRange(last.result.poi_way_bundles[BundleOf(k)].ways)

StructuralProblems ==
    {"invalid block signature", "invalid POI signature", "invalid way signature",
     "invalid tag ID"}

BoundarySkips ==
    {"zero pointer", "pointer > sub_file_size", "next pointer > sub_file_size"}

\* C5: when the decoding of a block of a read hits a wrong debug signature or
\* an invalid tag ID, the read returns that error; a read that returns a
\* result has skipped blocks only for a zero pointer or an out-of-range
\* offset.
C5_StructuralProblemsPropagate ==
    IsRead =>
        /\ \A k \in 1..Len(last.outcomes) :
               last.outcomes[k].detail \in StructuralProblems =>
                   last.status = "err" /\ last.err = last.outcomes[k].detail
        /\ last.status = "ok" =>
               \A k \in 1..Len(last.outcomes) :
                   last.outcomes[k].outcome # "bundle" =>
                       last.outcomes[k].detail \in BoundarySkips

\* the smallest zoom_level_min and the largest zoom_level_max the file declares
FileZoomMin ==
    CHOOSE z \in {file.sub_files[k].zoom_level_min : k \in 1..Len(file.sub_files)} :
        \A k \in 1..Len(file.sub_files) : z <= file.sub_files[k].zoom_level_min

FileZoomMax ==
    CHOOSE z \in {file.sub_files[k].zoom_level_max : k \in 1..Len(file.sub_files)} :
        \A k \in 1..Len(file.sub_files) : z >= file.sub_files[k].zoom_level_max

ClampedZoom(z) ==
    IF z > FileZoomMax THEN FileZoomMax ELSE IF z < FileZoomMin THEN FileZoomMin ELSE z

\* C6: a read that gets past the range check is answered at the tile's zoom
\* level clamped to [smallest declared zoom_min, largest declared zoom_max]:
\* that zoom level picks the sub-file, and in every block the read decodes it
\* gives the zoom-table row (zoom - zoom_level_min of the sub-file) and
\* filter_required (zoom > base zoom level of the sub-file).
C6_QueryZoomIsClamped ==
    PassedRangeCheck =>
        /\ last.query_zoom_level = ClampedZoom(last.upper_left.zoom_level)
        /\ last.sub_file_parameter
           = get_sub_file_parameter(header, ClampedZoom(last.upper_left.zoom_level))
        /\ \A k \in 1..Len(last.outcomes) :
               last.outcomes[k].block.status # "none" =>
                   /\ last.outcomes[k].block.row
                      = ClampedZoom(last.upper_left.zoom_level)
                        - last.sub_file_parameter.zoom_level_min
                   /\ last.outcomes[k].block.filter_required
                      <=> ClampedZoom(last.upper_left.zoom_level)
                          > last.sub_file_parameter.base_zoom_level

\* a tile above the largest declared zoom level was read and a block was
\* decoded into a bundle at the largest declared zoom level
C6_Witness ==
    /\ IsRead
    /\ last.status = "ok"
    /\ last.upper_left.zoom_level > FileZoomMax
    /\ last.query_zoom_level = FileZoomMax
    /\ \E k \in 1..Len(last.outcomes) : last.outcomes[k].outcome = "bundle"

\* C7: a read on a handle is answered at a query zoom level inside the range
\* restrict_to_zoom_range stored in the handle (zoom_level_min..zoom_level_max,
\* 0..255 until it is called).
C7_ReadsStayInRestrictedRange ==
    PassedRangeCheck =>
        /\ zoom_level_min <= last.query_zoom_level
        /\ last.query_zoom_level <= zoom_level_max

\* C10: a read returns an error exactly when its upper-left tile is right of
\* or below its lower-right tile; the error is the range error, and the read
\* has then looked up no index entry (the only way to the index cache) and
\* read no block; a read of a single tile does not return it.
C10_RangeErrorIffReversed ==
    IsRead =>
        /\ last.status = "err"
           <=> \/ last.upper_left.tile_x > last.lower_right.tile_x
               \/ last.upper_left.tile_y > last.lower_right.tile_y
        /\ last.status = "err" =>
               /\ last.err = "upperLeft tile must be above and left of lowerRight tile"
               /\ last.lookups = <<>>
               /\ last.reads = <<>>
               /\ last.entries = <<>>
        /\ last.upper_left = last.lower_right => last.status # "err"

\* a read over a rectangle whose upper-left tile is below its lower-right
\* tile, and not right of it, returned the range error
C10_Witness ==
    /\ last.op = "read_map_data_impl"
    /\ last.upper_left.tile_x <= last.lower_right.tile_x
    /\ last.upper_left.tile_y > last.lower_right.tile_y
    /\ last.status = "err"

(***************************************************************************)
(* Opening a file: MapFile::new reads the header field by field             *)
(* (required_field.rs, optional_field.rs, header.rs read_header).  A file   *)
(* is here the values of its header fields; the fields are taken to lie     *)
(* inside the remaining header.  A 64-bit date is a pair of limbs           *)
(* [hi, lo] standing for hi * 10^6 + lo.                                    *)
(***************************************************************************)
BINARY_OSM_MAGIC_BYTE == "mapsforge binary OSM"
HEADER_SIZE_MAX == 1000000
MERCATOR == "Mercator"
SUPPORTED_FILE_VERSION_MIN == 3
SUPPORTED_FILE_VERSION_MAX == 5
START_ZOOM_LEVEL_MAX == 22
\* 1200000000000
MAP_DATE_MIN == [hi |-> 1200000, lo |-> 0]

DateLess(a, b) == a.hi < b.hi \/ (a.hi = b.hi /\ a.lo < b.lo)

\* ReadBuffer::read_from_file of length bytes at a position of the file
read_from_file(f, position, length) ==
    length <= MAXIMUM_BUFFER_SIZE /\ position + length <= f.file_size

\* RequiredFields::read_magic_byte
read_magic_byte(f) ==
    IF ~read_from_file(f, 0, Len(BINARY_OSM_MAGIC_BYTE) + 4)
    THEN "reading magic byte has failed"
    ELSE IF f.magic # BINARY_OSM_MAGIC_BYTE THEN "invalid magic byte"
    ELSE "ok"

\* RequiredFields::read_remaining_header
read_remaining_header(f) ==
    IF f.remaining_header_size < HEADER_SIZE_MIN \/ f.remaining_header_size > HEADER_SIZE_MAX
    THEN "invalid remaining header size"
    ELSE IF ~read_from_file(f, Len(BINARY_OSM_MAGIC_BYTE) + 4, f.remaining_header_size)
    THEN "reading header data has failed"
    ELSE "ok"

\* RequiredFields::read_file_version
read_file_version(f) ==
    IF f.file_version < SUPPORTED_FILE_VERSION_MIN \/ f.file_version > SUPPORTED_FILE_VERSION_MAX
    THEN "unsupported file version"
    ELSE "ok"

\* RequiredFields::read_file_size
read_file_size(f) ==
    IF f.header_file_size # f.file_size THEN "invalid file size" ELSE "ok"

\* a read_map_date that accepts every date
read_map_date_unchecked(f) ==
    "ok"

\* RequiredFields::read_map_date
read_map_date(f) ==
    IF DateLess(f.map_date, MAP_DATE_MIN) THEN "invalid map date" ELSE "ok"

\* RequiredFields::read_bounding_box: [err, box]
read_bounding_box(f) ==
    BoundingBoxNew(f.bounding_box.min_latitude, f.bounding_box.min_longitude,
                   f.bounding_box.max_latitude, f.bounding_box.max_longitude)

\* ReadBuffer::read_utf8_encoded_string: the empty string is refused
read_utf8_encoded_string(text) ==
    IF Len(text) > 0 THEN "ok" ELSE "invalid string length"

\* RequiredFields::read_projection_name
read_projection_name(f) ==
    IF read_utf8_encoded_string(f.projection_name) # "ok"
    THEN read_utf8_encoded_string(f.projection_name)
    ELSE IF f.projection_name # MERCATOR THEN "unsupported projection"
    ELSE "ok"

\* OptionalFields::read_optional_fields: of the optional fields only the
\* start zoom level has a bound
read_optional_fields(f) ==
    IF f.start_zoom_level.has /\ f.start_zoom_level.value > START_ZOOM_LEVEL_MAX
    THEN "invalid map start zoom level"
    ELSE "ok"

\* RequiredFields::read_poi_tags
read_poi_tags(f) ==
    IF \E i \in 1..Len(f.poi_tags) : read_utf8_encoded_string(f.poi_tags[i]) # "ok"
    THEN "invalid string length"
    ELSE "ok"

\* RequiredFields::read_way_tags
read_way_tags(f) ==
    IF \E i \in 1..Len(f.way_tags) : read_utf8_encoded_string(f.way_tags[i]) # "ok"
    THEN "invalid string length"
    ELSE "ok"

\* the steps of read_header in the order it takes them, each "ok" or the
\* error it returns
HeaderSteps(f) ==
    << read_magic_byte(f), read_remaining_header(f), read_file_version(f),
       read_file_size(f), read_map_date(f), read_bounding_box(f).err,
       read_projection_name(f), read_optional_fields(f),
       read_poi_tags(f), read_way_tags(f) >>

\* the first step that fails, 0 when none does: every step is behind a ?
FirstFailing(steps) ==
    IF \A i \in 1..Len(steps) : steps[i] = "ok" THEN 0
    ELSE CHOOSE i \in 1..Len(steps) :
            steps[i] # "ok" /\ \A j \in 1..(i - 1) : steps[j] = "ok"

\* MapFileHeader::read_header on a fresh header: [err, header]
read_header(f) ==
    LET Failed(steps, i) ==
            IF i # 0 THEN [err |-> steps[i], header |-> MapFileHeaderNew]
            ELSE LET Parsed(r) == [err |-> r.err, header |-> r.header]
                 IN  Parsed(read_sub_file_parameters(f.sub_files, f.file_size,
                                read_bounding_box(f).box, f.is_debug_file))
        Stepped(steps) == Failed(steps, FirstFailing(steps))
    IN  Stepped(HeaderSteps(f))


\* a file whose header is sound: two sub-files, zoom levels 0..1 and 2..3
SoundHeaderFile ==
    [ file_size |-> 3 * SubFileSpacing,
      magic |-> BINARY_OSM_MAGIC_BYTE,
      remaining_header_size |-> HEADER_SIZE_MIN,
      file_version |-> SUPPORTED_FILE_VERSION_MIN,
      header_file_size |-> 3 * SubFileSpacing,
      map_date |-> [hi |-> 1700000, lo |-> 5],
      bounding_box |-> ModelBoundingBox,
      projection_name |-> MERCATOR,
      is_debug_file |-> FALSE,
      start_zoom_level |-> [has |-> FALSE, value |-> 0],
      poi_tags |-> PoiDictionary,
      way_tags |-> WayDictionary,
      sub_files |->
        << [ base_zoom_level |-> 1, zoom_level_min |-> 0, zoom_level_max |-> 1,
             start_address |-> SubFileSpacing, sub_file_size |-> SubFileSpacing ],
           [ base_zoom_level |-> 2, zoom_level_min |-> 2, zoom_level_max |-> 3,
             start_address |-> 2 * SubFileSpacing, sub_file_size |-> SubFileSpacing ] >> ]

\* other values of the header fields, on and beyond their bounds
HeaderFieldValues ==
    << [field |-> "magic", value |-> "mapsforge binary OSN"],
      [field |-> "remaining_header_size", value |-> HEADER_SIZE_MIN - 1],
      [field |-> "remaining_header_size", value |-> HEADER_SIZE_MAX + 1],
      [field |-> "file_version", value |-> SUPPORTED_FILE_VERSION_MIN - 1],
      [field |-> "file_version", value |-> SUPPORTED_FILE_VERSION_MAX],
      [field |-> "file_version", value |-> SUPPORTED_FILE_VERSION_MAX + 1],
      [field |-> "header_file_size", value |-> 3 * SubFileSpacing + 1],
      [field |-> "map_date", value |-> [hi |-> MAP_DATE_MIN.hi - 1, lo |-> 999999]],
      [field |-> "map_date", value |-> MAP_DATE_MIN],
      [field |-> "bounding_box",
       value |-> [ModelBoundingBox EXCEPT !.min_latitude = ModelBoundingBox.max_latitude + 1]],
      [field |-> "projection_name", value |-> "Lambert"],
      [field |-> "projection_name", value |-> ""],
      [field |-> "start_zoom_level", value |-> [has |-> TRUE, value |-> START_ZOOM_LEVEL_MAX]],
      [field |-> "start_zoom_level",
       value |-> [has |-> TRUE, value |-> START_ZOOM_LEVEL_MAX + 1]],
      [field |-> "is_debug_file", value |-> TRUE],
      [field |-> "sub_files", value |-> <<>>] >>

\* other values of the fields of a declared sub-file
SubFileFieldValues ==
    << [field |-> "base_zoom_level", value |-> BASE_ZOOM_LEVEL_MAX + 1],
      [field |-> "zoom_level_min", value |-> ZOOM_LEVEL_LIMIT + 1],
      [field |-> "zoom_level_min", value |-> 4],
      [field |-> "zoom_level_max", value |-> ZOOM_LEVEL_LIMIT],
      [field |-> "zoom_level_max", value |-> ZOOM_LEVEL_LIMIT + 1],
      [field |-> "start_address", value |-> HEADER_SIZE_MIN - 1],
      [field |-> "start_address", value |-> 3 * SubFileSpacing],
      [field |-> "sub_file_size", value |-> 0] >>

\* what a file can differ from the sound one in: a header field (k = 0) or a
\* field of declared sub-file k
Deviations ==
    [ i \in 1..Len(HeaderFieldValues) |->
        [k |-> 0, field |-> HeaderFieldValues[i].field, value |-> HeaderFieldValues[i].value] ]
    \o Flatten([ k \in 1..Len(SoundHeaderFile.sub_files) |->
           [ i \in 1..Len(SubFileFieldValues) |->
               [ k |-> k, field |-> SubFileFieldValues[i].field,
                 value |-> SubFileFieldValues[i].value ] ] ])

\* the file with deviation i; 0 is no deviation
Deviate(f, i) ==
    IF i = 0 THEN f
    ELSE IF Deviations[i].k = 0 THEN [f EXCEPT ![Deviations[i].field] = Deviations[i].value]
    ELSE IF Deviations[i].k > Len(f.sub_files) THEN f
    ELSE [f EXCEPT !.sub_files[Deviations[i].k][Deviations[i].field] = Deviations[i].value]

\* the files that differ from the sound one in at most two fields
HeaderFiles ==
    { Deviate(Deviate(SoundHeaderFile, i), j) :
        i \in 0..Len(Deviations), j \in 0..Len(Deviations) }

InitOpen ==
    /\ file \in HeaderFiles
    /\ header = MapFileHeaderNew
    /\ zoom_level_min = 0
    /\ zoom_level_max = U8_MAX
    /\ cache = IndexCacheNew(INDEX_CACHE_SIZE)
    /\ buffer_data = <<>>
    /\ buffer_position = 0
    /\ last = [op |-> "none", status |-> "none", err |-> "none"]

\* MapFile::new: the handle exists when read_header succeeds
MapFileNew ==
    /\ last.op = "none"
    /\ \E r \in {read_header(file)} :
          /\ header' = r.header
          /\ last' = [ op |-> "new", status |-> IF r.err = "ok" THEN "ok" ELSE "err",
                       err |-> r.err ]
    /\ UNCHANGED <<buffer_data, buffer_position, file, zoom_level_min, zoom_level_max, cache>>

\* MapFileHeader::get_query_zoom_level on the header of a handle
OpenedQueryZoomLevel ==
    /\ last.status = "ok"
    /\ \E z \in QueryZooms :
          last' = [ op |-> "get_query_zoom_level", status |-> "ok", err |-> "ok", zoom |-> z,
                    result |-> get_query_zoom_level(header, z) ]
    /\ UNCHANGED <<buffer_data, buffer_position, file, header, zoom_level_min, zoom_level_max, cache>>

NextOpen == MapFileNew \/ OpenedQueryZoomLevel

SpecOpen == InitOpen /\ [][NextOpen]_vars

\* the bounds of the header fields in the order of the fields in the file,
\* each with whether the file violates it and the errors that report it; the
\* bounding box (no minimum above its maximum) stands where the file has it
FieldBounds(f) ==
    << [ violated |-> f.magic # "mapsforge binary OSM", errors |-> {"invalid magic byte"} ],
       [ violated |-> f.remaining_header_size < 70 \/ f.remaining_header_size > 1000000,
         errors |-> {"invalid remaining header size"} ],
       [ violated |-> f.file_version < 3 \/ f.file_version > 5,
         errors |-> {"unsupported file version"} ],
       [ violated |-> f.header_file_size # f.file_size, errors |-> {"invalid file size"} ],
       [ violated |-> f.map_date.hi < 1200000, errors |-> {"invalid map date"} ],
       [ violated |-> \/ f.bounding_box.min_latitude > f.bounding_box.max_latitude
                      \/ f.bounding_box.min_longitude > f.bounding_box.max_longitude,
         errors |-> {"Invalid bounding box coordinates"} ],
       [ violated |-> f.projection_name # "Mercator",
         errors |-> {"unsupported projection", "invalid string length"} ],
       [ violated |-> f.start_zoom_level.has /\ f.start_zoom_level.value > 22,
         errors |-> {"invalid map start zoom level"} ],
       [ violated |-> Len(f.sub_files) < 1, errors |-> {"invalid number of sub-files"} ] >>
    \o Flatten([ k \in 1..Len(f.sub_files) |->
         LET s == f.sub_files[k]
         IN  << [ violated |-> s.base_zoom_level > 20,
                  errors |-> {"invalid base zoom level"} ],
                [ violated |-> s.zoom_level_min > 22,
                  errors |-> {"invalid minimum zoom level"} ],
                [ violated |-> s.zoom_level_max > 22,
                  errors |-> {"invalid maximum zoom level"} ],
                [ violated |-> s.zoom_level_min > s.zoom_level_max,
                  errors |-> {"invalid zoom level range"} ],
                [ violated |-> s.start_address < 70 \/ s.start_address >= f.file_size,
                  errors |-> {"invalid start address"} ],
                [ violated |-> s.sub_file_size < 1,
                  errors |-> {"invalid sub-file size"} ] >> ])

ViolatedBounds(f) == {i \in 1..Len(FieldBounds(f)) : FieldBounds(f)[i].violated}

\* C11: opening a file of which a header field violates its bound fails: no
\* handle is produced, and the error is the one of the first violated field
\* in the order of the fields of the header.
C11_OpenFailsOnFirstViolatedField ==
    (last.op = "new" /\ ViolatedBounds(file) # {}) =>
        /\ last.status = "err"
        /\ header = MapFileHeaderNew
        /\ \E i \in ViolatedBounds(file) :
              /\ \A j \in ViolatedBounds(file) : i <= j
              /\ last.err \in FieldBounds(file)[i].errors

\* a file with two violated fields, a field of the second declared sub-file
\* among them, was opened and refused
C11_Witness ==
    /\ last.op = "new"
    /\ last.status = "err"
    /\ Cardinality(ViolatedBounds(file)) >= 2
    /\ \E i \in ViolatedBounds(file) : i > 15
    /\ last.err = "invalid file size"

(***************************************************************************)
(* Empty maps (tests/map.rs test_empty_map).                                *)
(***************************************************************************)
\* C12: on an empty map, read_map_data of the tile containing a point
\* succeeds and returns zero bundles at every query zoom level, the levels
\* below the file's minimum and above its maximum included
C12_EmptyMapReadsNothing ==
    (file \in EmptyMapFiles /\ last.op = "read_map_data") =>
        /\ last.status = "ok"
        /\ last.result.poi_way_bundles = <<>>

C12_Witness ==
    /\ file \in EmptyMapFiles
    /\ last.op = "read_map_data"
    /\ last.upper_left.zoom_level > header.zoom_level_maximum
    /\ last.status = "ok"
    /\ last.result.poi_way_bundles = <<>>
    /\ \E k \in 1..Len(last.outcomes) : last.outcomes[k].detail = "zero size"

(***************************************************************************)
(* f64: the IEEE 754 binary64 values the decoders compute with, rounding   *)
(* to nearest, ties to even.  A value is [neg, e, hi, lo] and stands for    *)
(* (-1)^neg * (hi * 2^27 + lo) * 2^e, its 53-bit significand in two limbs,  *)
(* 2^52 <= hi * 2^27 + lo < 2^53; zero has both limbs zero.  Sums carry     *)
(* three more bits (guard, round, sticky) in limbs H and L.                 *)
(***************************************************************************)
Limb == Pow2(27)

F64Zero == [neg |-> FALSE, e |-> 0, hi |-> 0, lo |-> 0]

F64IsZero(x) == x.hi = 0 /\ x.lo = 0

\* sets the lowest bit when bits were lost below it
Sticky(v, lost) == IF lost /\ v % 2 = 0 THEN v + 1 ELSE v

\* rounds the 56-bit H * 2^27 + L, scaled by 2^ex, to 53 bits
F64Round(neg, H, L, ex) ==
    LET low == L % 8
        lo == (L \div 8) + (H % 8) * Pow2(24)
        hi == H \div 8
        up == low > 4 \/ (low = 4 /\ lo % 2 = 1)
    IN  IF ~up THEN [neg |-> neg, e |-> ex + 3, hi |-> hi, lo |-> lo]
        ELSE IF lo + 1 < Limb THEN [neg |-> neg, e |-> ex + 3, hi |-> hi, lo |-> lo + 1]
        ELSE IF hi + 1 < Pow2(26) THEN [neg |-> neg, e |-> ex + 3, hi |-> hi + 1, lo |-> 0]
        ELSE [neg |-> neg, e |-> ex + 4, hi |-> Pow2(25), lo |-> 0]

\* X = <<H, L, ex>>: brings H * 2^27 + L into [2^55, 2^56) and rounds it
RECURSIVE F64NormaliseFrom(_, _)
F64NormaliseFrom(neg, X) ==
    IF X[1] >= Pow2(28) THEN F64Round(neg, X[1], X[2], X[3])
    ELSE F64NormaliseFrom(neg, << 2 * X[1] + (X[2] \div Pow2(26)), (2 * X[2]) % Limb, X[3] - 1 >>)

F64Normalise(neg, H, L, ex) ==
    IF H = 0 /\ L = 0 THEN F64Zero
    ELSE IF H >= Pow2(29)
    THEN F64Round(neg, H \div 2, Sticky((L \div 2) + (H % 2) * Pow2(26), L % 2 = 1), ex + 1)
    ELSE F64NormaliseFrom(neg, <<H, L, ex>>)

\* the significand of x with the three extra bits: <<H, L>>
F64Extended(x) == << x.hi * 8 + (x.lo \div Pow2(24)), (x.lo % Pow2(24)) * 8 >>

\* <<H, L>> shifted right by d bits, the bits lost kept as the sticky bit
ShiftRightSticky(X, d) ==
    IF d = 0 THEN X
    ELSE IF d < 27
    THEN << X[1] \div Pow2(d),
            Sticky((X[2] \div Pow2(d)) + (X[1] % Pow2(d)) * Pow2(27 - d), X[2] % Pow2(d) # 0) >>
    ELSE IF d < 57
    THEN << (X[1] \div Pow2(d - 27)) \div Limb,
            Sticky((X[1] \div Pow2(d - 27)) % Limb, X[1] % Pow2(d - 27) # 0 \/ X[2] # 0) >>
    ELSE << 0, 1 >>

\* the sum of the aligned significands A of sign neg_a and B of sign neg_b
F64AddAligned(neg_a, A, neg_b, B, ex) ==
    IF neg_a = neg_b
    THEN F64Normalise(neg_a, A[1] + B[1] + ((A[2] + B[2]) \div Limb), (A[2] + B[2]) % Limb, ex)
    ELSE IF A[1] > B[1] \/ (A[1] = B[1] /\ A[2] >= B[2])
    THEN IF A[2] >= B[2] THEN F64Normalise(neg_a, A[1] - B[1], A[2] - B[2], ex)
         ELSE F64Normalise(neg_a, A[1] - B[1] - 1, A[2] + Limb - B[2], ex)
    ELSE IF B[2] >= A[2] THEN F64Normalise(neg_b, B[1] - A[1], B[2] - A[2], ex)
    ELSE F64Normalise(neg_b, B[1] - A[1] - 1, B[2] + Limb - A[2], ex)

\* a + b of f64
F64Add(a, b) ==
    IF F64IsZero(a) THEN b
    ELSE IF F64IsZero(b) THEN a
    ELSE IF a.e >= b.e
    THEN F64AddAligned(a.neg, F64Extended(a), b.neg,
                       ShiftRightSticky(F64Extended(b), a.e - b.e), a.e - 3)
    ELSE F64AddAligned(b.neg, F64Extended(b), a.neg,
                       ShiftRightSticky(F64Extended(a), b.e - a.e), b.e - 3)

F64Neg(x) == IF F64IsZero(x) THEN x ELSE [x EXCEPT !.neg = ~x.neg]

\* a - b of f64
F64Sub(a, b) == F64Add(a, F64Neg(b))

\* f64::abs
F64Abs(x) == [x EXCEPT !.neg = FALSE]

F64MagnitudeLess(a, b) ==
    \/ a.e < b.e
    \/ a.e = b.e /\ (a.hi < b.hi \/ (a.hi = b.hi /\ a.lo < b.lo))

\* a < b of f64
F64Less(a, b) ==
    IF F64IsZero(a) THEN ~F64IsZero(b) /\ ~b.neg
    ELSE IF F64IsZero(b) THEN a.neg
    ELSE IF a.neg # b.neg THEN a.neg
    ELSE IF a.neg THEN F64MagnitudeLess(b, a)
    ELSE F64MagnitudeLess(a, b)

CONVERSION_FACTOR == 1000000

\* the next quotient bit of r / CONVERSION_FACTOR
QuotientBit(r) == IF 2 * r >= CONVERSION_FACTOR THEN 1 ELSE 0

\* X = <<H, L, r, ex>>: the quotient bits of r / CONVERSION_FACTOR appended to
\* H * 2^27 + L until it has 56 bits, the remainder left as the sticky bit
RECURSIVE F64QuotientFrom(_, _)
F64QuotientFrom(neg, X) ==
    IF X[1] >= Pow2(28) THEN F64Round(neg, X[1], Sticky(X[2], X[3] # 0), X[4])
    ELSE F64QuotientFrom(neg, << 2 * X[1] + ((2 * X[2] + QuotientBit(X[3])) \div Limb),
                                 (2 * X[2] + QuotientBit(X[3])) % Limb,
                                 2 * X[3] - QuotientBit(X[3]) * CONVERSION_FACTOR,
                                 X[4] - 1 >>)

\* LatLongUtils::microdegrees_to_degrees: microdegrees as f64 / 1_000_000.0
microdegrees_to_degrees(microdegrees) ==
    IF microdegrees = 0 THEN F64Zero
    ELSE F64QuotientFrom(microdegrees < 0, << 0, Abs(microdegrees) \div CONVERSION_FACTOR,
                                              Abs(microdegrees) % CONVERSION_FACTOR, 0 >>)

\* 180.0, -180.0 and 0.001 as f64
F64_LONGITUDE_MAX == [neg |-> FALSE, e |-> -45, hi |-> 47185920, lo |-> 0]
F64_LONGITUDE_MIN == [neg |-> TRUE, e |-> -45, hi |-> 47185920, lo |-> 0]
F64_DATE_LINE_TOLERANCE == [neg |-> FALSE, e |-> -62, hi |-> 34359738, lo |-> 49392124]

\* the international date line cases of the two node decoders, in f64
DateLineF64(longitude) ==
    IF F64Less(longitude, F64_LONGITUDE_MIN)
       /\ F64Less(F64Abs(F64Sub(F64_LONGITUDE_MIN, longitude)), F64_DATE_LINE_TOLERANCE)
    THEN F64_LONGITUDE_MIN
    ELSE IF F64Less(F64_LONGITUDE_MAX, longitude)
            /\ F64Less(F64Abs(F64Sub(longitude, F64_LONGITUDE_MAX)), F64_DATE_LINE_TOLERANCE)
    THEN F64_LONGITUDE_MAX
    ELSE [neg |-> longitude.neg, e |-> longitude.e, hi |-> longitude.hi, lo |-> longitude.lo]

\* the loop of decode_way_nodes_single_delta from node pos on, in f64
RECURSIVE SingleDeltaFromF64(_, _, _, _, _)
SingleDeltaFromF64(codes, pos, way_node_latitude, way_node_longitude, way_segment) ==
    IF pos > Len(codes) THEN way_segment
    ELSE LET lat == F64Add(way_node_latitude, microdegrees_to_degrees(codes[pos][1]))
             lon == DateLineF64(F64Add(way_node_longitude, microdegrees_to_degrees(codes[pos][2])))
         IN  SingleDeltaFromF64(codes, pos + 1, lat, lon, Append(way_segment, LatLongNew(lat, lon)))

\* MapFile::decode_way_nodes_single_delta with the f64 arithmetic of the code:
\* codes are the VBE-S pairs read, the tile origin is in f64 degrees
decode_way_nodes_single_delta_f64(codes, tile_latitude, tile_longitude) ==
    LET way_node_latitude == F64Add(tile_latitude, microdegrees_to_degrees(codes[1][1]))
        way_node_longitude == F64Add(tile_longitude, microdegrees_to_degrees(codes[1][2]))
    IN  SingleDeltaFromF64(codes, 2, way_node_latitude, way_node_longitude,
                           <<LatLongNew(way_node_latitude, way_node_longitude)>>)

\* the loop of decode_way_nodes_double_delta from node pos on, in f64
RECURSIVE DoubleDeltaFromF64(_, _, _, _, _, _, _)
DoubleDeltaFromF64(codes, pos, way_node_lat, way_node_lon, previous_single_delta_latitude, previous_single_delta_longitude, way_segment) ==
    IF pos > Len(codes) THEN way_segment
    ELSE LET single_delta_latitude ==
                 F64Add(microdegrees_to_degrees(codes[pos][1]), previous_single_delta_latitude)
             single_delta_longitude ==
                 F64Add(microdegrees_to_degrees(codes[pos][2]), previous_single_delta_longitude)
             lat == F64Add(way_node_lat, single_delta_latitude)
             lon == DateLineF64(F64Add(way_node_lon, single_delta_longitude))
         IN  DoubleDeltaFromF64(codes, pos + 1, lat, lon,
                                single_delta_latitude, single_delta_longitude,
                                Append(way_segment, LatLongNew(lat, lon)))

\* MapFile::decode_way_nodes_double_delta with the f64 arithmetic of the code
decode_way_nodes_double_delta_f64(codes, tile_latitude, tile_longitude) ==
    LET way_node_latitude == F64Add(tile_latitude, microdegrees_to_degrees(codes[1][1]))
        way_node_longitude == F64Add(tile_longitude, microdegrees_to_degrees(codes[1][2]))
    IN  DoubleDeltaFromF64(codes, 2, way_node_latitude, way_node_longitude, F64Zero, F64Zero,
                           <<LatLongNew(way_node_latitude, way_node_longitude)>>)

(***************************************************************************)
(* The two encodings of one ring, decoded.  A ring is a sequence of         *)
(* <<latitude, longitude>> in micro-degrees.                                *)
(***************************************************************************)
\* the offsets the writer stores for a ring: the first node from the tile
\* origin, every other node from the node before it
SingleDeltaEncoding(ring, origin) ==
    [ i \in 1..Len(ring) |->
        IF i = 1 THEN <<ring[1][1] - origin[1], ring[1][2] - origin[2]>>
        ELSE <<ring[i][1] - ring[i - 1][1], ring[i][2] - ring[i - 1][2]>> ]

\* the first node as above, then the change of the single delta from node to
\* node, the single delta before the second node being zero
DoubleDeltaEncoding(ring, origin) ==
    LET single == SingleDeltaEncoding(ring, origin)
    IN  [ i \in 1..Len(ring) |->
            IF i <= 2 THEN single[i]
            ELSE <<single[i][1] - single[i - 1][1], single[i][2] - single[i - 1][2]>> ]

MaxRingLen == 3
MaxNodeOffset == 6

\* tile origins in micro-degrees: the equator at Greenwich, and a point whose
\* rings reach the date line
TileOrigins == { <<0, 0>>, <<LatTable[9], LONGITUDE_MAX - MaxNodeOffset>> }

\* the nodes of a ring, as offsets from the tile origin
NodeOffsets == { <<a, b>> : a \in 0..MaxNodeOffset, b \in {0, MaxNodeOffset} }

\* the rings around the tile origins, of two to MaxRingLen nodes
Rings(origin) ==
    { [i \in 1..Len(offsets) |-> <<origin[1] + offsets[i][1], origin[2] + offsets[i][2]>>] :
        offsets \in UNION {[1..n -> NodeOffsets] : n \in 2..MaxRingLen} }

InitDelta ==
    /\ file = SoundHeaderFile
    /\ header = MapFileHeaderNew
    /\ zoom_level_min = 0
    /\ zoom_level_max = U8_MAX
    /\ cache = IndexCacheNew(INDEX_CACHE_SIZE)
    /\ buffer_data = <<>>
    /\ buffer_position = 0
    /\ \E origin \in TileOrigins : \E ring \in Rings(origin) :
          last = [op |-> "ring", ring |-> ring, origin |-> origin]

\* the ring written in both encodings and decoded by the two decoders
DecodeWayNodes ==
    /\ last.op = "ring"
    /\ last' = [ op |-> "decode_way_nodes", ring |-> last.ring, origin |-> last.origin,
                 single_delta |->
                     decode_way_nodes_single_delta_f64(
                         SingleDeltaEncoding(last.ring, last.origin),
                         microdegrees_to_degrees(last.origin[1]),
                         microdegrees_to_degrees(last.origin[2])),
                 double_delta |->
                     decode_way_nodes_double_delta_f64(
                         DoubleDeltaEncoding(last.ring, last.origin),
                         microdegrees_to_degrees(last.origin[1]),
                         microdegrees_to_degrees(last.origin[2])) ]
    /\ UNCHANGED <<buffer_data, buffer_position, file, header, zoom_level_min, zoom_level_max, cache>>

NextDelta == DecodeWayNodes

SpecDelta == InitDelta /\ [][NextDelta]_vars

\* C13: for every ring of at least two nodes and every tile origin, the
\* single-delta decoder on the ring's single-delta encoding and the
\* double-delta decoder on its double-delta encoding yield the same node
\* sequence
C13_DeltaEncodingsDecodeAlike ==
    last.op = "decode_way_nodes" => last.single_delta = last.double_delta

(***************************************************************************)
(* reader.rs: the positional readers of ReadBuffer.  rb is                  *)
(* [buffer_data, buffer_position]; a reader yields [status, err, value,     *)
(* buffer_position] with status "ok", "err" (a MapFileException) or         *)
(* "panic", and value a tuple of integers.  32-bit patterns are pairs of    *)
(* 16-bit limbs <<hi, lo>>.                                                 *)
(***************************************************************************)
ReadBufferOf(data, position) == [buffer_data |-> data, buffer_position |-> position]

ReadDone(position, value) ==
    [status |-> "ok", err |-> "ok", value |-> value, buffer_position |-> position]

ReadFailed(position, err) ==
    [status |-> "err", err |-> err, value |-> <<>>, buffer_position |-> position]

ReadPanic(position, why) ==
    [status |-> "panic", err |-> why, value |-> <<>>, buffer_position |-> position]

Half == Pow2(16)

\* iN::from_be_bytes of the bytes at from + 1 .. from + n (n <= 4)
RECURSIVE BeUnsigned(_, _, _)
BeUnsigned(data, from, n) ==
    IF n = 0 THEN 0 ELSE BeUnsigned(data, from, n - 1) * 256 + data[from + n]

BeSigned(data, from, n) ==
    IF data[from + 1] >= 128
    THEN BeUnsigned([data EXCEPT ![from + 1] = @ - 128], from, n) - Pow2(8 * n - 2) - Pow2(8 * n - 2)
    ELSE BeUnsigned(data, from, n)

\* ReadBuffer::read_byte
read_byte(rb) ==
    IF rb.buffer_position >= Len(rb.buffer_data)
    THEN ReadFailed(rb.buffer_position, "Buffer overflow when reading byte")
    ELSE ReadDone(rb.buffer_position + 1, <<rb.buffer_data[rb.buffer_position + 1]>>)

\* ReadBuffer::read_int
read_int(rb) ==
    IF rb.buffer_position + 4 > Len(rb.buffer_data)
    THEN ReadFailed(rb.buffer_position, "Buffer overflow when reading int")
    ELSE ReadDone(rb.buffer_position + 4, <<BeSigned(rb.buffer_data, rb.buffer_position, 4)>>)

\* ReadBuffer::read_float: the f32 with the bits of read_int
read_float(rb) == read_int(rb)

\* ReadBuffer::read_long: the i64 as a signed and three unsigned 16-bit limbs
read_long(rb) ==
    IF rb.buffer_position + 8 > Len(rb.buffer_data)
    THEN ReadFailed(rb.buffer_position, "Buffer overflow when reading long")
    ELSE ReadDone(rb.buffer_position + 8,
                  << BeSigned(rb.buffer_data, rb.buffer_position, 2),
                     BeUnsigned(rb.buffer_data, rb.buffer_position + 2, 2),
                     BeUnsigned(rb.buffer_data, rb.buffer_position + 4, 2),
                     BeUnsigned(rb.buffer_data, rb.buffer_position + 6, 2) >>)

\* ReadBuffer::read_short
read_short(rb) ==
    IF rb.buffer_position + 2 > Len(rb.buffer_data)
    THEN ReadFailed(rb.buffer_position, "Buffer overflow when reading short")
    ELSE ReadDone(rb.buffer_position + 2, <<BeSigned(rb.buffer_data, rb.buffer_position, 2)>>)

\* the same with every byte put at shift 0
Shl32_unshifted(v, s) ==
    << 0, v >>

\* (v as u32) << s for a byte v and s < 32, the bits above bit 31 dropped
Shl32(v, s) ==
    IF s >= 16 THEN << (v * Pow2(s - 16)) % Half, 0 >>
    ELSE << (v * Pow2(s)) \div Half, (v * Pow2(s)) % Half >>

Or32(a, b) == << BitOr(a[1], b[1]), BitOr(a[2], b[2]) >>

\* the bit pattern as i32
AsI32(a) == IF a[1] >= Pow2(15) THEN (a[1] - Half) * Half + a[2] ELSE a[1] * Half + a[2]

\* the while loop of read_signed_int and read_unsigned_int from position on.
\* The condition indexes buffer_data before any bound is checked; a shift
\* amount of 32 or more panics in a build with overflow checks and is taken
\* modulo 32 without them.
RECURSIVE VariableByteLoop(_, _, _, _, _)
VariableByteLoop(rb, position, variable_byte_decode, variable_byte_shift, overflow_checks) ==
    IF position >= Len(rb.buffer_data)
    THEN [ status |-> "panic", err |-> "index out of bounds", position |-> position,
           variable_byte_decode |-> variable_byte_decode,
           variable_byte_shift |-> variable_byte_shift ]
    ELSE IF BitAnd(rb.buffer_data[position + 1], 128) = 0
    THEN [ status |-> "ok", err |-> "ok", position |-> position,
           variable_byte_decode |-> variable_byte_decode,
           variable_byte_shift |-> variable_byte_shift ]
    ELSE IF variable_byte_shift >= 32 /\ overflow_checks
    THEN [ status |-> "panic", err |-> "attempt to shift left with overflow",
           position |-> position, variable_byte_decode |-> variable_byte_decode,
           variable_byte_shift |-> variable_byte_shift ]
    ELSE VariableByteLoop(rb, position + 1,
                          Or32(variable_byte_decode,
                               Shl32(BitAnd(rb.buffer_data[position + 1], 127),
                                     variable_byte_shift % 32)),
                          variable_byte_shift + 7, overflow_checks)

\* what follows the loop of read_signed_int
SignedAfter(rb, loop, overflow_checks) ==
    IF loop.status = "panic" THEN ReadPanic(loop.position, loop.err)
    ELSE IF loop.position >= Len(rb.buffer_data)
    THEN ReadFailed(loop.position, "Buffer overflow when reading signed int")
    ELSE IF loop.variable_byte_shift >= 32 /\ overflow_checks
    THEN ReadPanic(loop.position, "attempt to shift left with overflow")
    ELSE LET magnitude ==
                 AsI32(Or32(loop.variable_byte_decode,
                            Shl32(BitAnd(rb.buffer_data[loop.position + 1], 63),
                                  loop.variable_byte_shift % 32)))
         IN  IF BitAnd(rb.buffer_data[loop.position + 1], 64) = 0
             THEN ReadDone(loop.position + 1, <<magnitude>>)
             ELSE IF magnitude # -Pow2(30) - Pow2(30)
             THEN ReadDone(loop.position + 1, <<-magnitude>>)
             ELSE IF overflow_checks
             THEN ReadPanic(loop.position, "attempt to negate with overflow")
             ELSE ReadDone(loop.position + 1, <<magnitude>>)

\* ReadBuffer::read_signed_int
read_signed_int(rb, overflow_checks) ==
    SignedAfter(rb, VariableByteLoop(rb, rb.buffer_position, <<0, 0>>, 0, overflow_checks), overflow_checks)

\* what follows the loop of read_unsigned_int
UnsignedAfter(rb, loop, overflow_checks) ==
    IF loop.status = "panic" THEN ReadPanic(loop.position, loop.err)
    ELSE IF loop.position >= Len(rb.buffer_data)
    THEN ReadFailed(loop.position, "Buffer overflow when reading unsigned int")
    ELSE IF loop.variable_byte_shift >= 32 /\ overflow_checks
    THEN ReadPanic(loop.position, "attempt to shift left with overflow")
    ELSE ReadDone(loop.position + 1,
                  Or32(loop.variable_byte_decode,
                       Shl32(rb.buffer_data[loop.position + 1], loop.variable_byte_shift % 32)))

\* ReadBuffer::read_unsigned_int: the u32 as <<hi, lo>>
read_unsigned_int(rb, overflow_checks) ==
    UnsignedAfter(rb, VariableByteLoop(rb, rb.buffer_position, <<0, 0>>, 0, overflow_checks), overflow_checks)

\* String::from_utf8 on bytes that are ASCII or cannot start a character
\* (ByteSamples holds no lead byte of a longer character)
from_utf8(bytes) == \A i \in 1..Len(bytes) : bytes[i] < 128

\* ReadBuffer::read_utf8_encoded_string_with_length; the bound is
\* buffer_position + string_length <= buffer_data.len()
read_utf8_encoded_string_with_length(rb, string_length) ==
    IF string_length > 0 /\ string_length <= Len(rb.buffer_data) - rb.buffer_position
    THEN IF from_utf8(SubSeq(rb.buffer_data, rb.buffer_position + 1,
                             rb.buffer_position + string_length))
         THEN ReadDone(rb.buffer_position + string_length,
                       SubSeq(rb.buffer_data, rb.buffer_position + 1,
                              rb.buffer_position + string_length))
         ELSE ReadFailed(rb.buffer_position + string_length, "invalid utf-8 sequence")
    ELSE ReadFailed(rb.buffer_position, "invalid string length")

\* the u32 as usize; lengths from 2^31 on are beyond every region and stand
\* here as 2^31 - 1
AsLength(value) == IF value[1] >= Pow2(15) THEN (Pow2(15) - 1) * Half + (Half - 1) ELSE value[1] * Half + value[2]

\* what follows the length in the length-prefixed read_utf8_encoded_string
StringAfter(rb, length) ==
    IF length.status # "ok" THEN length
    ELSE read_utf8_encoded_string_with_length(
             ReadBufferOf(rb.buffer_data, length.buffer_position), AsLength(length.value))

\* ReadBuffer::read_utf8_encoded_string on the bytes of the region
read_utf8_encoded_string_bytes(rb, overflow_checks) ==
    StringAfter(rb, read_unsigned_int(rb, overflow_checks))

\* ReadBuffer::skip_bytes
skip_bytes(rb, bytes) == ReadDone(rb.buffer_position + bytes, <<>>)

(***************************************************************************)
(* A ReadBuffer over a region, and its positional readers in any order.     *)
(***************************************************************************)
\* VBE-U of v: seven bits per byte from the low end, the high bit set on
\* every byte but the last
RECURSIVE VbeU(_)
VbeU(v) == IF v < 128 THEN <<v>> ELSE <<(v % 128) + 128>> \o VbeU(v \div 128)

RECURSIVE VbeSFrom(_, _)
VbeSFrom(magnitude, negative) ==
    IF magnitude < 64 THEN <<magnitude + (IF negative THEN 64 ELSE 0)>>
    ELSE <<(magnitude % 128) + 128>> \o VbeSFrom(magnitude \div 128, negative)

\* VBE-S of v: the magnitude as in VBE-U, the last byte holding six bits and
\* the sign in bit 6
VbeS(v) == VbeSFrom(Abs(v), v < 0)

MaxBufferLen == 3
MaxSkip == 2

\* 0x00, 0x01, 0x41, 0x80, 0xff
ByteSamples == {0, 1, 65, 128, 255}

\* the values at the ends of the one- to five-byte encodings
Magnitudes ==
    { 0, 1, 63, 64, 127, 128, 8191, 8192, 16383, 16384, 1048575, 1048576, 2097151, 2097152,
      134217727, 134217728, 268435455, 268435456, 2147483647 }

UnsignedValues == Magnitudes

SignedValues == Magnitudes \cup { -m : m \in Magnitudes }

Buffers ==
    UNION { [1..n -> ByteSamples] : n \in 0..MaxBufferLen }
    \cup { VbeU(v) : v \in UnsignedValues }
    \cup { VbeS(v) : v \in SignedValues }
    \cup { <<b>> \o VbeU(v) \o <<c>> : b \in {128}, c \in {1, 128}, v \in {128, 16384} }

InitReader ==
    /\ file = SoundHeaderFile
    /\ header = MapFileHeaderNew
    /\ zoom_level_min = 0
    /\ zoom_level_max = U8_MAX
    /\ cache = IndexCacheNew(INDEX_CACHE_SIZE)
    /\ buffer_data \in Buffers
    /\ buffer_position = 0
    /\ last = [op |-> "new", status |-> "ok"]

\* a positional reader applied at the cursor, and what it leaves behind
Positional(op, argument, r) ==
    /\ last.status # "panic"
    /\ buffer_position' = r.buffer_position
    /\ last' = [ op |-> op, argument |-> argument, from |-> buffer_position,
                 status |-> r.status, err |-> r.err, value |-> r.value ]
    /\ UNCHANGED <<buffer_data, file, header, zoom_level_min, zoom_level_max, cache>>

ReadByte == Positional("read_byte", 0, read_byte(ReadBufferOf(buffer_data, buffer_position)))

ReadShort == Positional("read_short", 0, read_short(ReadBufferOf(buffer_data, buffer_position)))

ReadInt == Positional("read_int", 0, read_int(ReadBufferOf(buffer_data, buffer_position)))

ReadLong == Positional("read_long", 0, read_long(ReadBufferOf(buffer_data, buffer_position)))

ReadFloat == Positional("read_float", 0, read_float(ReadBufferOf(buffer_data, buffer_position)))

ReadSignedInt ==
    \E overflow_checks \in BOOLEAN :
        Positional("read_signed_int", 0,
                   read_signed_int(ReadBufferOf(buffer_data, buffer_position), overflow_checks))

ReadUnsignedInt ==
    \E overflow_checks \in BOOLEAN :
        Positional("read_unsigned_int", 0,
                   read_unsigned_int(ReadBufferOf(buffer_data, buffer_position), overflow_checks))

ReadUtf8EncodedStringWithLength ==
    \E string_length \in 0..MaxBufferLen :
        Positional("read_utf8_encoded_string_with_length", string_length,
                   read_utf8_encoded_string_with_length(
                       ReadBufferOf(buffer_data, buffer_position), string_length))

ReadUtf8EncodedString ==
    \E overflow_checks \in BOOLEAN :
        Positional("read_utf8_encoded_string", 0,
                   read_utf8_encoded_string_bytes(
                       ReadBufferOf(buffer_data, buffer_position), overflow_checks))

\* skip_bytes, while the cursor is in the region
SkipBytes ==
    /\ buffer_position <= Len(buffer_data)
    /\ \E bytes \in 0..MaxSkip :
          Positional("skip_bytes", bytes,
                     skip_bytes(ReadBufferOf(buffer_data, buffer_position), bytes))

NextReader ==
    \/ ReadByte
    \/ ReadShort
    \/ ReadInt
    \/ ReadLong
    \/ ReadFloat
    \/ ReadSignedInt
    \/ ReadUnsignedInt
    \/ ReadUtf8EncodedStringWithLength
    \/ ReadUtf8EncodedString
    \/ SkipBytes

SpecReader == InitReader /\ [][NextReader]_vars

\* the region holds the bytes of encoding from position on
HoldsAt(data, position, encoding) ==
    /\ position + Len(encoding) <= Len(data)
    /\ SubSeq(data, position + 1, position + Len(encoding)) = encoding

RunsOffTheEnd(data, position) == \A i \in (position + 1)..Len(data) : data[i] >= 128

\* C15: read_unsigned_int and read_signed_int return an error, and do not
\* abort, whenever decoding needs a byte at or past the end of the buffer: the
\* cursor is at the end, or the last byte of the buffer is a continuation byte
C15_OverrunIsAnError ==
    ( /\ last.op \in {"read_unsigned_int", "read_signed_int"}
      /\ last.from <= Len(buffer_data)
      /\ RunsOffTheEnd(buffer_data, last.from) ) => last.status = "err"

\* the bytes the fixed-width readers consume
FixedWidth(op) ==
    CASE op = "read_byte" -> 1
      [] op = "read_short" -> 2
      [] op = "read_int" -> 4
      [] op = "read_float" -> 4
      [] op = "read_long" -> 8

\* C16: every positional operation either advances the cursor by the bytes it
\* consumed or fails with an error, so the cursor never exceeds the buffer
\* size
C16_CursorStaysInRegion ==
    last.op # "new" =>
        /\ last.status \in {"ok", "err"}
        /\ (last.status = "ok" /\ last.op \in {"read_byte", "read_short", "read_int", "read_float", "read_long"}) =>
               buffer_position = last.from + FixedWidth(last.op)
        /\ (last.status = "ok" /\ last.op \in {"skip_bytes", "read_utf8_encoded_string_with_length"}) =>
               buffer_position = last.from + last.argument
        /\ buffer_position <= Len(buffer_data)

(***************************************************************************)
(* The index cache on its own: a file channel of four sub-files, a cache    *)
(* of any small capacity, lookups in any order, a device that may fail.     *)
(***************************************************************************)
MaxCapacity == 3

\* blocks across and down of the sub-files of the cache file: the first has
\* more index entries than one index block holds
CacheGrids == << <<13, 10>>, <<2, 1>>, <<1, 1>>, <<3, 1>> >>

\* the bytes of the index of the last sub-file that the file still holds: it
\* ends inside that index
TruncatedIndexBytes == 7

CacheBlocks(k) == CacheGrids[k][1] * CacheGrids[k][2]

\* the index word of block i of sub-file k
CacheWord(k, i) ==
    [hi |-> (IF i % 2 = 1 THEN 32768 ELSE 0) + k, lo |-> k * 65536 + 3 * i + 1]

CacheIndex(k) ==
    [ j \in 1..(CacheBlocks(k) * BYTES_PER_INDEX_ENTRY) |->
        LET bytes == FiveBytes(CacheWord(k, (j - 1) \div BYTES_PER_INDEX_ENTRY))
        IN  bytes[((j - 1) % BYTES_PER_INDEX_ENTRY) + 1] ]

\* the file behind the channel, and the error its device answers with
CacheFile(io) ==
    [ debug_file |-> FALSE,
      io |-> io,
      sub_files |-> [k \in 1..Len(CacheGrids) |-> [start_address |-> SubFileSpacing * k]],
      data |-> [ k \in 1..Len(CacheGrids) |->
                   [ index |-> IF k = Len(CacheGrids)
                               THEN SubSeq(CacheIndex(k), 1, TruncatedIndexBytes)
                               ELSE CacheIndex(k) ] ] ]

\* the SubFileParameter the header declares for sub-file k
CacheSubFile(k) ==
    [ base_zoom_level |-> 4,
      blocks_height |-> CacheGrids[k][2],
      blocks_width |-> CacheGrids[k][1],
      boundary_tile_bottom |-> CacheGrids[k][2] - 1,
      boundary_tile_left |-> 0,
      boundary_tile_right |-> CacheGrids[k][1] - 1,
      boundary_tile_top |-> 0,
      index_end_address |-> SubFileSpacing * k + CacheBlocks(k) * BYTES_PER_INDEX_ENTRY,
      index_start_address |-> SubFileSpacing * k,
      number_of_blocks |-> CacheBlocks(k),
      start_address |-> SubFileSpacing * k,
      sub_file_size |-> SubFileSpacing,
      zoom_level_max |-> 4,
      zoom_level_min |-> 4 ]

\* the block numbers looked up in a sub-file of n blocks: both ends of every
\* index block, and the first number past the sub-file
CacheBlockNumbers(n) ==
    { b \in {0, 1, INDEX_ENTRIES_PER_BLOCK - 1, INDEX_ENTRIES_PER_BLOCK, n - 1, n} : b <= n }

IoFaults == {"none", "seek", "read"}

InitCache ==
    /\ file = CacheFile("none")
    /\ header = MapFileHeaderNew
    /\ zoom_level_min = 0
    /\ zoom_level_max = 0
    /\ \E capacity \in (0..MaxCapacity) \cup {INDEX_CACHE_SIZE} :
          /\ cache = IndexCacheNew(capacity)
          /\ last = [op |-> "new", capacity |-> capacity]
    /\ buffer_data = <<>>
    /\ buffer_position = 0

\* IndexCache::get_index_entry
GetIndexEntry ==
    \E k \in 1..Len(CacheGrids) : \E block_number \in CacheBlockNumbers(CacheBlocks(k)) :
        \E r \in {get_index_entry(cache, file, CacheSubFile(k), block_number)} :
            /\ cache' = r.cache
            /\ last' = [ op |-> "get_index_entry", sub_file |-> k, block_number |-> block_number,
                         before |-> cache, io |-> IoFault(file),
                         err |-> r.err, entry |-> r.entry ]
            /\ UNCHANGED <<buffer_data, buffer_position, file, header, zoom_level_min, zoom_level_max>>

\* MapFile::close_file_channel: IndexCache::destroy
Destroy ==
    /\ cache.map # <<>>
    /\ cache' = destroy(cache)
    /\ last' = [op |-> "destroy", before |-> cache]
    /\ UNCHANGED <<buffer_data, buffer_position, file, header, zoom_level_min, zoom_level_max>>

\* the device starts or stops failing
DeviceChanges ==
    \E io \in IoFaults \ {IoFault(file)} :
        /\ file' = CacheFile(io)
        /\ UNCHANGED <<buffer_data, buffer_position, header, zoom_level_min, zoom_level_max, cache, last>>

NextCache == GetIndexEntry \/ Destroy \/ DeviceChanges

SpecCache == InitCache /\ [][NextCache]_vars

\* the key of the index block that holds the entry of the last lookup
LastKey ==
    [ sub_file_parameter |-> CacheSubFile(last.sub_file),
      index_block_number |-> last.block_number \div INDEX_ENTRIES_PER_BLOCK ]

LastInRange ==
    /\ last.op = "get_index_entry"
    /\ last.block_number < CacheBlocks(last.sub_file)

LastHit == LastInRange /\ CachePosition(last.before, LastKey) # 0

LastMiss == LastInRange /\ CachePosition(last.before, LastKey) = 0

\* the file holds all the bytes of the index block of the last lookup
LastBlockStored ==
    LET k == last.sub_file
        from == (last.block_number \div INDEX_ENTRIES_PER_BLOCK) * SIZE_OF_INDEX_BLOCK
        size == Min(SIZE_OF_INDEX_BLOCK, CacheBlocks(k) * BYTES_PER_INDEX_ENTRY - from)
    IN  from + size <= Len(CacheFile("none").data[k].index)

\* C17: whatever the earlier lookups left in the cache, a lookup of a block
\* of a sub-file returns the 40-bit big-endian word the file stores at
\* index_start_address + 5 * block_number, and on a hit the value an empty
\* cache would have read from the file
C17_IndexEntryIsTheStoredWord ==
    (LastInRange /\ LastBlockStored /\ (LastHit \/ last.io = "none")) =>
        /\ last.err = "ok"
        /\ last.entry = CacheWord(last.sub_file, last.block_number)
        /\ FiveBytes(last.entry) =
             SubSeq(CacheFile("none").data[last.sub_file].index,
                    BYTES_PER_INDEX_ENTRY * last.block_number + 1,
                    BYTES_PER_INDEX_ENTRY * last.block_number + BYTES_PER_INDEX_ENTRY)
        /\ last.entry = get_index_entry(IndexCacheNew(last.before.capacity), CacheFile("none"),
                                        CacheSubFile(last.sub_file), last.block_number).entry

\* a hit in the second index block of the first sub-file, in a full cache
C17_Witness ==
    /\ LastHit
    /\ last.block_number = INDEX_ENTRIES_PER_BLOCK + 1
    /\ Len(last.before.map) = last.before.capacity
    /\ last.before.map[1].key = LastKey
    /\ last.entry = CacheWord(1, INDEX_ENTRIES_PER_BLOCK + 1)

\* the last lookup read its index block from the file and installed it
LastInstalled == LastMiss /\ last.err = "ok" /\ last.io = "none" /\ LastBlockStored

\* C18: the cache never holds more index blocks than its capacity, which is
\* the configured one, or 1 for a configured capacity of 0; a hit makes its
\* entry the most recently used and keeps the others in their order; a miss
\* installs the block it read as the most recently used, in a full cache in
\* place of the least recently used entry and of no other; destroy leaves
\* the cache empty
C18_CacheIsBoundedLru ==
    /\ Len(cache.map) <= cache.capacity
    /\ cache.capacity >= 1
    /\ \A i, j \in 1..Len(cache.map) : cache.map[i].key = cache.map[j].key => i = j
    /\ last.op = "new" =>
          /\ cache.capacity = (IF last.capacity = 0 THEN 1 ELSE last.capacity)
          /\ cache.map = <<>>
    /\ last.op = "destroy" => cache = [capacity |-> last.before.capacity, map |-> <<>>]
    /\ LastHit =>
          LET at == CachePosition(last.before, LastKey)
          IN  cache.map = SubSeq(last.before.map, 1, at - 1)
                            \o SubSeq(last.before.map, at + 1, Len(last.before.map))
                            \o << last.before.map[at] >>
    /\ LastInstalled =>
          LET kept == IF Len(last.before.map) = last.before.capacity
                      THEN Tail(last.before.map) ELSE last.before.map
          IN  /\ cache.capacity = last.before.capacity
              /\ SubSeq(cache.map, 1, Len(cache.map) - 1) = kept
              /\ cache.map[Len(cache.map)].key = LastKey

\* a miss in a full cache of two blocks: the least recently used one went,
\* the other one stayed
C18_Witness ==
    /\ LastInstalled
    /\ last.before.capacity = 2
    /\ Len(last.before.map) = 2
    /\ Len(cache.map) = 2
    /\ cache.map[1] = last.before.map[2]
    /\ cache.map[1].key.index_block_number = 0
    /\ cache.map[1].key.sub_file_parameter = CacheSubFile(1)
    /\ last.before.map[1].key.index_block_number = 1
    /\ cache.map[2].key = LastKey

\* C19: a lookup that misses and whose read ends before the index block is
\* complete returns the value 0 and no error, and installs nothing; a lookup
\* that misses and whose seek or read fails with another I/O error returns
\* an error; both leave the cache as it was
C19_FailedFetchInstallsNothing ==
    /\ (LastMiss /\ last.io = "none" /\ ~LastBlockStored) =>
          /\ last.err = "ok"
          /\ last.entry = LongZero
          /\ cache = last.before
    /\ (LastMiss /\ last.io # "none") =>
          /\ last.err = "IO error"
          /\ cache = last.before

\* a short read of the truncated index, with blocks of other sub-files cached
C19_Witness ==
    /\ LastMiss
    /\ last.io = "none"
    /\ last.sub_file = Len(CacheGrids)
    /\ last.block_number = CacheBlocks(Len(CacheGrids)) - 1
    /\ last.entry = LongZero
    /\ last.err = "ok"
    /\ Len(cache.map) = 2
    /\ cache = last.before

(***************************************************************************)
(* query_calculations.rs on its own: the bitmask of a rectangle of query    *)
(* tiles.                                                                   *)
(***************************************************************************)
MaxBitmaskTile == 5
MaxZoomDifference == 4

BitmaskTiles(zoom_level) ==
    { TileNew(x, y, zoom_level, TileSize) : x \in 0..MaxBitmaskTile, y \in 0..MaxBitmaskTile }

InitBitmask ==
    /\ file = SoundHeaderFile
    /\ header = MapFileHeaderNew
    /\ zoom_level_min = 0
    /\ zoom_level_max = U8_MAX
    /\ cache = IndexCacheNew(INDEX_CACHE_SIZE)
    /\ buffer_data = <<>>
    /\ buffer_position = 0
    /\ \E zoom_level_difference \in 1..MaxZoomDifference :
          \E upper_left \in BitmaskTiles(zoom_level_difference + 1) :
             \E lower_right \in BitmaskTiles(zoom_level_difference + 1) :
                last = [ op |-> "tiles", upper_left |-> upper_left, lower_right |-> lower_right,
                         zoom_level_difference |-> zoom_level_difference ]

\* QueryCalculations::calculate_tile_bitmask_range
CalculateTileBitmaskRange ==
    /\ last.op = "tiles"
    /\ \E bitmask \in {calculate_tile_bitmask_range(last.upper_left, last.lower_right,
                                                     last.zoom_level_difference)} :
          last' = [ op |-> "calculate_tile_bitmask_range",
                    upper_left |-> last.upper_left, lower_right |-> last.lower_right,
                    zoom_level_difference |-> last.zoom_level_difference,
                    bitmask |-> bitmask ]
    /\ UNCHANGED <<buffer_data, buffer_position, file, header, zoom_level_min, zoom_level_max, cache>>

NextBitmask == CalculateTileBitmaskRange

SpecBitmask == InitBitmask /\ [][NextBitmask]_vars

\* bit b of the 16-bit mask
BitOf(mask, b) == (mask \div Pow2(b)) % 2

\* the tiles of the rectangle of the last call
LastRectangle ==
    { t \in BitmaskTiles(last.upper_left.zoom_level) :
        /\ last.upper_left.tile_x <= t.tile_x /\ t.tile_x <= last.lower_right.tile_x
        /\ last.upper_left.tile_y <= t.tile_y /\ t.tile_y <= last.lower_right.tile_y }

\* C20: the bitmask of a rectangle of query tiles has exactly the bits that
\* the bitmask of some tile of the rectangle has, for every zoom level
\* difference from 1 on; for a rectangle of one tile it is that tile's bitmask
C20_RangeBitmaskIsTheOr ==
    last.op = "calculate_tile_bitmask_range" =>
        /\ last.bitmask \in 0..(Pow2(16) - 1)
        /\ \E masks \in {{ calculate_tile_bitmask(t, last.zoom_level_difference) : t \in LastRectangle }} :
              \A b \in 0..15 : BitOf(last.bitmask, b) = 1 <=> \E mask \in masks : BitOf(mask, b) = 1
        /\ last.upper_left = last.lower_right =>
              last.bitmask = calculate_tile_bitmask(last.upper_left, last.zoom_level_difference)

\* a rectangle of six tiles over two base tiles, two zoom levels below them
C20_Witness ==
    /\ last.op = "calculate_tile_bitmask_range"
    /\ last.zoom_level_difference = 2
    /\ last.upper_left.tile_x = 2 /\ last.lower_right.tile_x = 4
    /\ last.upper_left.tile_y = 1 /\ last.lower_right.tile_y = 2
    /\ Cardinality(LastRectangle) = 6
    /\ Cardinality({b \in 0..15 : BitOf(last.bitmask, b) = 1}) = 6

(***************************************************************************)
(* query_parameters.rs on its own: a rectangle of query tiles and a         *)
(* sub-file, first calculate_base_tiles, then calculate_blocks.             *)
(***************************************************************************)
MaxPlanZoom == 3
MaxPlanTile == 2

\* the tile numbers of an axis at the zoom level that the rectangles use
PlanAxis(zoom_level) == 0..Min(Pow2(zoom_level) - 1, MaxPlanTile)

\* the boundary tiles of an axis of a sub-file: from and to, each the first,
\* the middle or the last tile of the base zoom level
PlanBounds(base_zoom_level) ==
    LET marks == {0, Pow2(base_zoom_level) \div 2, Pow2(base_zoom_level) - 1}
    IN  { <<a, b>> \in marks \X marks : a <= b }

\* the SubFileParameter of a sub-file with the boundary tiles
PlanSubFile(base_zoom_level, across, down) ==
    [ base_zoom_level |-> base_zoom_level,
      blocks_height |-> down[2] - down[1] + 1,
      blocks_width |-> across[2] - across[1] + 1,
      boundary_tile_bottom |-> down[2],
      boundary_tile_left |-> across[1],
      boundary_tile_right |-> across[2],
      boundary_tile_top |-> down[1],
      index_end_address |->
          SubFileSpacing + (across[2] - across[1] + 1) * (down[2] - down[1] + 1) * BYTES_PER_INDEX_ENTRY,
      index_start_address |-> SubFileSpacing,
      number_of_blocks |-> (across[2] - across[1] + 1) * (down[2] - down[1] + 1),
      start_address |-> SubFileSpacing,
      sub_file_size |-> SubFileSpacing,
      zoom_level_max |-> base_zoom_level,
      zoom_level_min |-> base_zoom_level ]

InitPlan ==
    /\ file = SoundHeaderFile
    /\ header = MapFileHeaderNew
    /\ zoom_level_min = 0
    /\ zoom_level_max = U8_MAX
    /\ cache = IndexCacheNew(INDEX_CACHE_SIZE)
    /\ buffer_data = <<>>
    /\ buffer_position = 0
    /\ \E zoom_level \in 0..MaxPlanZoom, base_zoom_level \in 0..MaxPlanZoom :
          \E x1 \in PlanAxis(zoom_level), x2 \in PlanAxis(zoom_level) :
             \E y1 \in PlanAxis(zoom_level), y2 \in PlanAxis(zoom_level) :
                \E across \in PlanBounds(base_zoom_level), down \in PlanBounds(base_zoom_level) :
                   last = [ op |-> "plan",
                            upper_left |-> TileNew(x1, y1, zoom_level, TileSize),
                            lower_right |-> TileNew(x2, y2, zoom_level, TileSize),
                            sub_file_parameter |-> PlanSubFile(base_zoom_level, across, down),
                            q |-> QueryParametersNew ]

\* QueryParameters::calculate_base_tiles
CalculateBaseTiles ==
    /\ last.op = "plan"
    /\ last' = [ last EXCEPT
                   !.op = "calculate_base_tiles",
                   !.q = calculate_base_tiles(last.q, last.upper_left, last.lower_right,
                                              last.sub_file_parameter) ]
    /\ UNCHANGED <<buffer_data, buffer_position, file, header, zoom_level_min, zoom_level_max, cache>>

\* QueryParameters::calculate_blocks
CalculateBlocks ==
    /\ last.op = "calculate_base_tiles"
    /\ last' = [ last EXCEPT
                   !.op = "calculate_blocks",
                   !.q = calculate_blocks(last.q, last.sub_file_parameter) ]
    /\ UNCHANGED <<buffer_data, buffer_position, file, header, zoom_level_min, zoom_level_max, cache>>

NextPlan == CalculateBaseTiles \/ CalculateBlocks

SpecPlan == InitPlan /\ [][NextPlan]_vars

\* the tile numbers (x, y) of the query rectangle and of the base-tile rectangle
QueryRectangle ==
    (last.upper_left.tile_x .. last.lower_right.tile_x)
        \X (last.upper_left.tile_y .. last.lower_right.tile_y)

BaseRectangle ==
    (last.q.from_base_tile_x .. last.q.to_base_tile_x)
        \X (last.q.from_base_tile_y .. last.q.to_base_tile_y)

\* the tile at the zoom level of b that covers, is covered by, or is the tile
\* t: the base tile b and the query tile t are ancestor, descendant or equal
Related(b, base_zoom_level, t, zoom_level) ==
    IF zoom_level < base_zoom_level
    THEN /\ b[1] \div Pow2(base_zoom_level - zoom_level) = t[1]
         /\ b[2] \div Pow2(base_zoom_level - zoom_level) = t[2]
    ELSE /\ t[1] \div Pow2(zoom_level - base_zoom_level) = b[1]
         /\ t[2] \div Pow2(zoom_level - base_zoom_level) = b[2]

\* C21: calculate_base_tiles multiplies the corners by 2^d when the query
\* zoom is d below the base zoom (the far corner filled up by 2^d - 1),
\* divides them by 2^d when it is d above, and copies them when it is equal;
\* it uses the tile bitmask exactly above the base zoom; the base-tile
\* rectangle of a query rectangle is the set of base tiles related to one of
\* its tiles, and is not reversed
C21_BaseTilesCoverTheQuery ==
    last.op = "calculate_base_tiles" =>
        LET qz == last.upper_left.zoom_level
            bz == last.sub_file_parameter.base_zoom_level
            UL == last.upper_left
            LR == last.lower_right
            q == last.q
        IN  /\ qz < bz =>
                  /\ q.from_base_tile_x = UL.tile_x * Pow2(bz - qz)
                  /\ q.from_base_tile_y = UL.tile_y * Pow2(bz - qz)
                  /\ q.to_base_tile_x = LR.tile_x * Pow2(bz - qz) + Pow2(bz - qz) - 1
                  /\ q.to_base_tile_y = LR.tile_y * Pow2(bz - qz) + Pow2(bz - qz) - 1
                  /\ ~q.use_tile_bitmask
            /\ qz > bz =>
                  /\ q.from_base_tile_x = UL.tile_x \div Pow2(qz - bz)
                  /\ q.from_base_tile_y = UL.tile_y \div Pow2(qz - bz)
                  /\ q.to_base_tile_x = LR.tile_x \div Pow2(qz - bz)
                  /\ q.to_base_tile_y = LR.tile_y \div Pow2(qz - bz)
                  /\ q.use_tile_bitmask
            /\ qz = bz =>
                  /\ q.from_base_tile_x = UL.tile_x /\ q.from_base_tile_y = UL.tile_y
                  /\ q.to_base_tile_x = LR.tile_x /\ q.to_base_tile_y = LR.tile_y
                  /\ ~q.use_tile_bitmask
            /\ (UL.tile_x <= LR.tile_x /\ UL.tile_y <= LR.tile_y) =>
                  /\ q.from_base_tile_x <= q.to_base_tile_x
                  /\ q.from_base_tile_y <= q.to_base_tile_y
                  /\ BaseRectangle =
                       { b \in (0..(Pow2(bz) - 1)) \X (0..(Pow2(bz) - 1)) :
                           \E t \in QueryRectangle : Related(b, bz, t, qz) }

\* a rectangle of two by two tiles two zoom levels below the base zoom: 64
\* base tiles
C21_Witness ==
    /\ last.op = "calculate_base_tiles"
    /\ last.upper_left.zoom_level = 1
    /\ last.sub_file_parameter.base_zoom_level = 3
    /\ last.upper_left.tile_x = 0 /\ last.lower_right.tile_x = 1
    /\ last.upper_left.tile_y = 0 /\ last.lower_right.tile_y = 1
    /\ last.q.to_base_tile_x = 7
    /\ Cardinality(BaseRectangle) = 64

\* the base-tile rectangle and the grid of the sub-file share a column, a row
MeetsAcross ==
    /\ last.q.from_base_tile_x <= last.sub_file_parameter.boundary_tile_right
    /\ last.q.to_base_tile_x >= last.sub_file_parameter.boundary_tile_left
    /\ last.q.from_base_tile_x <= last.q.to_base_tile_x

MeetsDown ==
    /\ last.q.from_base_tile_y <= last.sub_file_parameter.boundary_tile_bottom
    /\ last.q.to_base_tile_y >= last.sub_file_parameter.boundary_tile_top
    /\ last.q.from_base_tile_y <= last.q.to_base_tile_y

\* C22 as stated: after calculate_blocks both ends of the block rectangle lie
\* in the grid of the sub-file on both axes
C22_BlocksLieInTheGrid ==
    last.op = "calculate_blocks" =>
        /\ last.q.from_block_x \in 0..(last.sub_file_parameter.blocks_width - 1)
        /\ last.q.to_block_x \in 0..(last.sub_file_parameter.blocks_width - 1)
        /\ last.q.from_block_y \in 0..(last.sub_file_parameter.blocks_height - 1)
        /\ last.q.to_block_y \in 0..(last.sub_file_parameter.blocks_height - 1)

\* C22 amended: after calculate_blocks the block rectangle starts at 0 or
\* later and ends at the last column and row of the grid or earlier; on an
\* axis where the base-tile rectangle meets the grid both ends lie in the
\* grid, in order, and are the ends of the common part; on an axis where it
\* does not, the block range is empty (from above to)
C22_BlocksAreCutToTheGrid ==
    last.op = "calculate_blocks" =>
        LET q == last.q
            s == last.sub_file_parameter
        IN  /\ q.from_block_x >= 0 /\ q.from_block_y >= 0
            /\ q.to_block_x <= s.blocks_width - 1
            /\ q.to_block_y <= s.blocks_height - 1
            /\ IF MeetsAcross
               THEN /\ q.from_block_x \in 0..(s.blocks_width - 1)
                    /\ q.to_block_x \in q.from_block_x..(s.blocks_width - 1)
                    /\ (q.from_block_x + s.boundary_tile_left)..(q.to_block_x + s.boundary_tile_left)
                         = (q.from_base_tile_x..q.to_base_tile_x)
                             \cap (s.boundary_tile_left..s.boundary_tile_right)
               ELSE q.from_block_x > q.to_block_x
            /\ IF MeetsDown
               THEN /\ q.from_block_y \in 0..(s.blocks_height - 1)
                    /\ q.to_block_y \in q.from_block_y..(s.blocks_height - 1)
                    /\ (q.from_block_y + s.boundary_tile_top)..(q.to_block_y + s.boundary_tile_top)
                         = (q.from_base_tile_y..q.to_base_tile_y)
                             \cap (s.boundary_tile_top..s.boundary_tile_bottom)
               ELSE q.from_block_y > q.to_block_y

\* a query left of and below the grid of the sub-file: the last column is
\* negative and the first row is past the grid
C22_Witness ==
    /\ last.op = "calculate_blocks"
    /\ last.upper_left.tile_x <= last.lower_right.tile_x
    /\ last.upper_left.tile_y <= last.lower_right.tile_y
    /\ last.q.to_block_x < 0
    /\ last.q.from_block_x = 0
    /\ last.q.from_block_y > last.sub_file_parameter.blocks_height - 1

\* the block pointer the reader takes from an index word: its bits 34..0
PointerOf(entry) == (entry.hi % 2048) * Pow2(24) + entry.lo

\* the pointer of a block of the sub-file of the last read as the file holds
\* it, and the pointer that ends the block
BlockPointer(block_number) == PointerOf(IndexWordInFile(block_number))

BlockEnd(block_number) ==
    IF block_number + 1 = last.sub_file_parameter.number_of_blocks
    THEN last.sub_file_parameter.sub_file_size
    ELSE BlockPointer(block_number + 1)

\* the block is one of those that are passed over: pointer 0, pointer past
\* the sub-file, size 0, size negative
PassedOver(block_number) ==
    \/ BlockPointer(block_number) = 0
    \/ BlockPointer(block_number) > last.sub_file_parameter.sub_file_size
    \/ BlockEnd(block_number) - BlockPointer(block_number) <= 0

\* the read loaded the bytes of the block of its k-th outcome and went on to
\* decode them: size bytes from start_address + pointer
LoadedInFull(k) ==
    LET block_number == last.outcomes[k].block_number
    IN  /\ last.outcomes[k].outcome \in {"bundle", "decode error", "panic"}
        /\ \E i \in 1..Len(last.reads) :
              /\ last.reads[i].position
                   = last.sub_file_parameter.start_address + BlockPointer(block_number)
              /\ last.reads[i].size = BlockEnd(block_number) - BlockPointer(block_number)

\* the read passed over the block of its k-th outcome: no bundle from it
NoBundleFrom(k) == last.outcomes[k].outcome = "skipped"

\* the reads that went through the blocks of their rectangle: they returned
\* a result, or ended inside the decoding of a block
WentThroughBlocks ==
    /\ IsRead
    /\ \/ last.status = "ok"
       \/ last.status # "err" /\ last.outcomes # <<>>

\* C23 as stated: a block with pointer 0, pointer past the sub-file, size 0 or
\* negative size gives no bundle and the read goes on; every other block has
\* exactly its size in bytes loaded from start_address + pointer
C23_OnlyListedBlocksArePassedOver ==
    WentThroughBlocks =>
        \A k \in 1..Len(last.outcomes) :
            IF PassedOver(last.outcomes[k].block_number)
            THEN NoBundleFrom(k)
            ELSE LoadedInFull(k)

\* C23 amended: a block with pointer 0, pointer past the sub-file, size 0 or
\* negative size gives no bundle, and so does a block whose next block has a
\* pointer past the sub-file; a read fails for none of them; every other block
\* has exactly its size in bytes loaded from start_address + pointer, the
\* size being the pointer of the next block, or the sub-file size for the
\* last block, less its own pointer
C23_InvalidBlocksArePassedOver ==
    WentThroughBlocks =>
        /\ \A k \in 1..Len(last.outcomes) :
              LET block_number == last.outcomes[k].block_number
              IN  IF \/ PassedOver(block_number)
                     \/ BlockEnd(block_number) > last.sub_file_parameter.sub_file_size
                  THEN NoBundleFrom(k)
                  ELSE LoadedInFull(k)
        /\ (\A k \in 1..Len(last.outcomes) : last.outcomes[k].outcome # "panic") =>
              /\ last.status = "ok"
              /\ Len(last.result.poi_way_bundles)
                   = Cardinality({k \in 1..Len(last.outcomes) : last.outcomes[k].outcome = "bundle"})

\* a read over two blocks: the first has a negative size, the pointer of the
\* second being 0, and is passed over; the second is passed over as well
C23_Witness ==
    /\ IsRead
    /\ last.status = "ok"
    /\ Len(last.outcomes) = 2
    /\ BlockPointer(0) > 0
    /\ BlockPointer(1) = 0
    /\ BlockEnd(0) - BlockPointer(0) < 0
    /\ NoBundleFrom(1)
    /\ NoBundleFrom(2)
    /\ last.result.poi_way_bundles = <<>>

(***************************************************************************)
(* The label position of a way.                                            *)
(***************************************************************************)
\* the ways decoded by the read of the current state, each with the feature
\* flags and the two label values of its record
DecodedWays ==
    UNION { SeqRange(last.outcomes[k].block.decoded) : k \in 1..Len(last.outcomes) }

\* the first node of the first ring of the data block a way was decoded from
FirstNode(way) == way.way_nodes[1][1]

\* C24 as stated: the first value read is the longitude offset and the second
\* the latitude offset, so the label position of a decoded way with the label
\* flag is (first node latitude + second value, first node longitude + first
\* value), and a way without the flag has no label position.
C24_LabelTakesLongitudeFirst ==
    IsRead =>
        \A d \in DecodedWays :
            IF "label_position" \in d.features
            THEN d.way.label_position =
                    LatLongNew(FirstNode(d.way).latitude + d.label_values[2],
                               FirstNode(d.way).longitude + d.label_values[1])
            ELSE d.way.label_position = NONE

\* C24, amended: the first value read is the latitude offset and the second
\* the longitude offset: the label position of a decoded way with the label
\* flag is (first node latitude + first value, first node longitude + second
\* value) with the first node of the first ring of its own data block, and a
\* way without the flag has no label position.
C24_LabelTakesLatitudeFirst ==
    IsRead =>
        \A d \in DecodedWays :
            IF "label_position" \in d.features
            THEN d.way.label_position =
                    LatLongNew(FirstNode(d.way).latitude + d.label_values[1],
                               FirstNode(d.way).longitude + d.label_values[2])
            ELSE d.way.label_position = NONE

\* a read returned two ways of one record with the label flag, decoded from
\* data blocks with different first nodes, whose two label values differ, and
\* a way without a label position
C24_Witness ==
    /\ IsRead
    /\ last.status = "ok"
    /\ \E d, e \in DecodedWays :
          /\ "label_position" \in d.features
          /\ e.features = d.features
          /\ d.label_values[1] # d.label_values[2]
          /\ FirstNode(d.way) # FirstNode(e.way)
          /\ d.way.label_position # e.way.label_position
          /\ \E k \in 1..Len(last.result.poi_way_bundles) :
                {d.way, e.way} \subseteq SeqRange(last.result.poi_way_bundles[k].ways)
    /\ \E d \in DecodedWays : d.way.label_position = NONE

(***************************************************************************)
(* process_ways from the way data size of one way record to the end of the  *)
(* tile bitmask test, over the bytes of the record.                         *)
(***************************************************************************)
\* the largest way data size of a record
MaxWayDataSize == 4

\* the tile bitmask of a record as its two bytes: 0x0000, 0x0033, 0xcc00, 0xffff
TileBitmaskBytes == { <<0, 0>>, <<0, 51>>, <<204, 0>>, <<255, 255>> }

\* the tile bitmask of a query: 0x0000, 0x0033, 0xffff
QueryTileBitmasks == {0, 51, 65535}

\* the bytes of records from the way data size on: the size, the tile
\* bitmask, what is left of the record; records cut off after the size or in
\* the tile bitmask; a size of 2^31
WayBuffers ==
    { VbeU(n) \o t \o [i \in 1..(IF n > 2 THEN n - 2 ELSE 0) |-> 1] :
          n \in 0..MaxWayDataSize, t \in TileBitmaskBytes }
    \cup { VbeU(n) \o <<b>> : n \in 0..MaxWayDataSize, b \in {0, 255} }
    \cup { VbeU(n) : n \in 0..MaxWayDataSize }
    \cup { <<128, 128, 128, 128, 8>> \o t : t \in TileBitmaskBytes }

\* skip_bytes(n as usize) for an i32 n: a negative n becomes 2^64 + n, and
\* adding it to a cursor of at least -n overflows usize: a panic in a build
\* with overflow checks, the sum modulo 2^64 without them
skip_bytes_as_usize(rb, n, overflow_checks) ==
    IF n >= 0 \/ rb.buffer_position + n < 0 THEN skip_bytes(rb, AsUsize(n))
    ELSE IF overflow_checks THEN ReadPanic(rb.buffer_position, "attempt to add with overflow")
    ELSE ReadDone(rb.buffer_position + n, <<>>)

\* what follows the way data size: the tile bitmask test.  [status, err,
\* outcome, way_data_size, size_end, buffer_position]; outcome is "skipped"
\* (continue with the next way) or "decode" (the way is decoded from the
\* special byte on)
WayAfterSize(rb, size, use_tile_bitmask, query_tile_bitmask, overflow_checks) ==
    LET way_data_size == AsI32(size.value)
        at == ReadBufferOf(rb.buffer_data, size.buffer_position)
        tile_bitmask == read_short(at)
        skip == skip_bytes_as_usize(ReadBufferOf(rb.buffer_data, tile_bitmask.buffer_position),
                                    way_data_size - 2, overflow_checks)
        Out(status, err, outcome, position) ==
            [ status |-> status, err |-> err, outcome |-> outcome,
              way_data_size |-> way_data_size, size_end |-> size.buffer_position,
              buffer_position |-> position ]
    IN  IF way_data_size < 0
        THEN Out("err", "invalid way data size", "none", size.buffer_position)
        ELSE IF ~use_tile_bitmask
        THEN Out("ok", "ok", "decode", skip_bytes(at, 2).buffer_position)
        ELSE IF tile_bitmask.status # "ok"
        THEN Out(tile_bitmask.status, tile_bitmask.err, "none", tile_bitmask.buffer_position)
        ELSE IF BitAnd(query_tile_bitmask, (tile_bitmask.value[1] + 65536) % 65536) = 0
        THEN Out(skip.status, skip.err, IF skip.status = "ok" THEN "skipped" ELSE "none",
                 skip.buffer_position)
        ELSE Out("ok", "ok", "decode", tile_bitmask.buffer_position)

\* MapFile::process_ways, one turn of the way loop of a file without debug
\* signatures, up to the special byte
process_ways_head(rb, use_tile_bitmask, query_tile_bitmask, overflow_checks) ==
    LET size == read_unsigned_int(rb, overflow_checks)
    IN  IF size.status # "ok"
        THEN [ status |-> size.status, err |-> size.err, outcome |-> "none",
               way_data_size |-> 0, size_end |-> size.buffer_position,
               buffer_position |-> size.buffer_position ]
        ELSE WayAfterSize(rb, size, use_tile_bitmask, query_tile_bitmask, overflow_checks)

InitWays ==
    /\ file = SoundHeaderFile
    /\ header = MapFileHeaderNew
    /\ zoom_level_min = 0
    /\ zoom_level_max = U8_MAX
    /\ cache = IndexCacheNew(INDEX_CACHE_SIZE)
    /\ buffer_data \in WayBuffers
    /\ buffer_position = 0
    /\ \E use_tile_bitmask, overflow_checks \in BOOLEAN, query_tile_bitmask \in QueryTileBitmasks :
          last = [ op |-> "way", status |-> "ok", use_tile_bitmask |-> use_tile_bitmask,
                   query_tile_bitmask |-> query_tile_bitmask,
                   overflow_checks |-> overflow_checks ]

\* the way loop comes to the way data size of the record
ProcessWaysHead ==
    /\ last.op = "way"
    /\ \E r \in { process_ways_head(ReadBufferOf(buffer_data, buffer_position),
                                    last.use_tile_bitmask, last.query_tile_bitmask,
                                    last.overflow_checks) } :
          /\ buffer_position' = r.buffer_position
          /\ last' = [ op |-> "process_ways", status |-> r.status, err |-> r.err,
                       outcome |-> r.outcome, way_data_size |-> r.way_data_size,
                       size_end |-> r.size_end,
                       use_tile_bitmask |-> last.use_tile_bitmask,
                       query_tile_bitmask |-> last.query_tile_bitmask,
                       overflow_checks |-> last.overflow_checks ]
    /\ UNCHANGED <<buffer_data, file, header, zoom_level_min, zoom_level_max, cache>>

NextWays == ProcessWaysHead

SpecWays == InitWays /\ [][NextWays]_vars

\* the tile bitmask of the record, where its two bytes are in the buffer
WayTileBitmask ==
    buffer_data[last.size_end + 1] * 256 + buffer_data[last.size_end + 2]

\* the way data size was read and is not negative, and with a tile bitmask in
\* use the two bytes of the record's tile bitmask are there and share no bit
\* with the query's
WayMasksApart ==
    /\ last.op = "process_ways"
    /\ last.use_tile_bitmask
    /\ last.way_data_size >= 0
    /\ last.size_end > 0
    /\ last.size_end + 2 <= Len(buffer_data)
    /\ BitAnd(last.query_tile_bitmask, WayTileBitmask) = 0

\* C25: with a tile bitmask in use and no bit shared by the query's and the
\* record's, the way is not decoded and the cursor is exactly way_data_size
\* bytes after the way data size, for every way_data_size >= 0; without a
\* tile bitmask the two bytes are skipped and the way is decoded whatever
\* they hold.
C25_MaskedWayIsSkippedWhole ==
    /\ WayMasksApart =>
          /\ last.status = "ok"
          /\ last.outcome = "skipped"
          /\ buffer_position = last.size_end + last.way_data_size
    /\ ( /\ last.op = "process_ways"
         /\ ~last.use_tile_bitmask
         /\ last.size_end > 0
         /\ last.way_data_size >= 0 ) =>
          /\ last.status = "ok"
          /\ last.outcome = "decode"
          /\ buffer_position = last.size_end + 2

(***************************************************************************)
(* The two parts process_blocks takes from an index entry.                  *)
(***************************************************************************)
\* bits 39..24 of the index entries drawn: nothing set, bit 24, bits 34..24,
\* bit 35, bit 36, bit 37, bit 38, bits 38..24, bit 39, bits 39 and 24,
\* bits 39 and 35, all set
EntryHighParts == {0, 1, 2047, 2048, 4096, 8192, 16384, 32767, 32768, 32769, 34816, 65535}

\* bits 23..0 of the index entries drawn
EntryLowParts == {0, 1, 255, 65536, 16777215}

InitIndexEntry ==
    /\ file = SoundHeaderFile
    /\ header = MapFileHeaderNew
    /\ zoom_level_min = 0
    /\ zoom_level_max = U8_MAX
    /\ cache = IndexCacheNew(INDEX_CACHE_SIZE)
    /\ buffer_data = <<>>
    /\ buffer_position = 0
    /\ \E hi \in EntryHighParts, lo \in EntryLowParts :
          last = [op |-> "index_entry", status |-> "ok", entry |-> [hi |-> hi, lo |-> lo]]

\* process_blocks on an index entry: the water test and the block pointer
SplitIndexEntry ==
    /\ last.op = "index_entry"
    /\ last' = [ op |-> "process_blocks", status |-> "ok", entry |-> last.entry,
                 is_water |-> ~LongIsZero(LongAnd(last.entry, BITMASK_INDEX_WATER)),
                 current_block_pointer |-> LongAnd(last.entry, BITMASK_INDEX_OFFSET) ]
    /\ UNCHANGED <<file, header, zoom_level_min, zoom_level_max, cache, buffer_data,
                   buffer_position>>

NextIndexEntry == SplitIndexEntry

SpecIndexEntry == InitIndexEntry /\ [][NextIndexEntry]_vars

\* C26: of every 40-bit index entry the water flag is bit 39 and the block
\* offset is bits 38..0, all 39 of them, so that entries differing in any of
\* these bits have different offsets.
C26_OffsetIsTheLow39Bits ==
    last.op = "process_blocks" =>
        /\ last.is_water = WaterBit(last.entry)
        /\ last.current_block_pointer = [hi |-> last.entry.hi % 32768, lo |-> last.entry.lo]

(***************************************************************************)
(* The block numbers process_blocks asks the index for, over grids of       *)
(* several rows and columns.                                                *)
(***************************************************************************)
\* the largest tile number of a grid and of a base-tile rectangle
MaxGridTile == 2

\* the base zoom level of the grids
GridZoom == 2

\* the first and last tile of a grid or of a base-tile rectangle on one axis
GridBounds == { <<a, b>> \in (0..MaxGridTile) \X (0..MaxGridTile) : a <= b }

\* a file with one sub-file of that many blocks, all of size zero: every
\* index entry points at the end of the sub-file, SubFileSpacing from its
\* start
GridFile(number_of_blocks) ==
    [ debug_file |-> FALSE,
      sub_files |-> << [start_address |-> SubFileSpacing] >>,
      data |-> << [ index |-> [ j \in 1..(number_of_blocks * BYTES_PER_INDEX_ENTRY) |->
                                  IF j % BYTES_PER_INDEX_ENTRY = 0 THEN SubFileSpacing % 256
                                  ELSE IF j % BYTES_PER_INDEX_ENTRY = 4
                                  THEN SubFileSpacing \div 256
                                  ELSE 0 ] ] >> ]

\* after calculate_base_tiles: a base-tile rectangle and the sub-file with a
\* grid
InitLookups ==
    /\ header = MapFileHeaderNew
    /\ zoom_level_min = 0
    /\ zoom_level_max = U8_MAX
    /\ cache = IndexCacheNew(INDEX_CACHE_SIZE)
    /\ buffer_data = <<>>
    /\ buffer_position = 0
    /\ \E across \in GridBounds, down \in GridBounds :
          \E x \in GridBounds, y \in GridBounds :
             /\ file = GridFile(PlanSubFile(GridZoom, across, down).number_of_blocks)
             /\ last = [ op |-> "calculate_base_tiles",
                         sub_file_parameter |-> PlanSubFile(GridZoom, across, down),
                         q |-> [ QueryParametersNew EXCEPT
                                   !.query_zoom_level = GridZoom,
                                   !.from_base_tile_x = x[1], !.to_base_tile_x = x[2],
                                   !.from_base_tile_y = y[1], !.to_base_tile_y = y[2] ] ]

\* MapFile::process_blocks over the block rectangle
ProcessBlocks ==
    /\ last.op = "calculate_blocks"
    /\ \E r \in { process_blocks(cache, file, last.q, last.sub_file_parameter,
                                 ModelBoundingBox, "All") } :
          /\ cache' = r.st.cache
          /\ last' = [ op |-> "process_blocks", status |-> r.st.status,
                       sub_file_parameter |-> last.sub_file_parameter, q |-> last.q,
                       lookups |-> r.st.lookups, outcomes |-> r.st.outcomes ]
    /\ UNCHANGED <<buffer_data, buffer_position, file, header, zoom_level_min, zoom_level_max>>

NextLookups == CalculateBlocks \/ ProcessBlocks

SpecLookups == InitLookups /\ [][NextLookups]_vars

\* C27: every block number process_blocks passes to get_index_entry, for the
\* block itself and for the block after it, is at least 0 and below
\* number_of_blocks, and no lookup is answered with 'invalid block number'.
C27_BlockNumbersAreInTheIndex ==
    last.op = "process_blocks" =>
        /\ last.status = "ok"
        /\ \A i \in 1..Len(last.lookups) :
              last.lookups[i] \in 0..(last.sub_file_parameter.number_of_blocks - 1)
        /\ \A k \in 1..Len(last.outcomes) :
              last.outcomes[k].detail # "invalid block number"

\* a block rectangle that starts below the first row of a grid of several
\* columns and ends at the last block: the last block was looked up, as the
\* block itself and as the block after the one before it
C27_Witness ==
    /\ last.op = "process_blocks"
    /\ last.sub_file_parameter.blocks_width >= 2
    /\ last.q.from_block_y >= 1
    /\ last.q.from_block_x < last.q.to_block_x
    /\ \E i \in 1..Len(last.lookups) :
          /\ i + 1 <= Len(last.lookups)
          /\ last.lookups[i] = last.sub_file_parameter.number_of_blocks - 1
          /\ last.lookups[i + 1] = last.sub_file_parameter.number_of_blocks - 1
    /\ Len(last.outcomes) >= 2

(***************************************************************************)
(* The row of the zoom table a read takes.                                  *)
(***************************************************************************)
\* C28: for every read of a tile of any zoom level on an opened file, the
\* sub-file chosen for the clamped query zoom level contains it in
\* [zoom_level_min, zoom_level_max], so that the row query_zoom_level -
\* zoom_level_min taken from the zoom table of every block lies in
\* [0, zoom_level_max - zoom_level_min] and indexing the table does not fail.
C28_QueryZoomIsInTheSubFile ==
    (IsRead /\ last.sub_file_parameter # NONE) =>
        /\ InRange(last.sub_file_parameter, last.query_zoom_level)
        /\ \A k \in 1..Len(last.outcomes) :
              /\ last.outcomes[k].outcome # "panic"
              /\ last.outcomes[k].outcome \in {"bundle", "decode error"} =>
                    last.outcomes[k].block.row \in
                        0..(last.sub_file_parameter.zoom_level_max
                              - last.sub_file_parameter.zoom_level_min)

(***************************************************************************)
(* The bounding box of a tile rectangle.                                    *)
(***************************************************************************)
\* C29: for every read whose corners are in order, the bounding box of the
\* tile rectangle is made without failure and its minima are not above its
\* maxima; for a single tile it is the bounding box of the tile, from its
\* upper-left corner (x, y) to its lower-right corner (x + 1, y + 1).
C29_RangeBoxIsTheTileBox ==
    (IsRead /\ PassedRangeCheck) =>
        LET range == get_bounding_box_range(last.upper_left, last.lower_right)
        IN  /\ range.err = "ok"
            /\ last.err # "Failed to create bounding box"
            /\ range.box.min_latitude <= range.box.max_latitude
            /\ range.box.min_longitude <= range.box.max_longitude
            /\ last.upper_left = last.lower_right =>
                  range.box = get_bounding_box(last.upper_left)

(***************************************************************************)
(* The bitmask of one tile, and the two levels of the table against each    *)
(* other.                                                                   *)
(***************************************************************************)
InitTileBitmask ==
    /\ file = SoundHeaderFile
    /\ header = MapFileHeaderNew
    /\ zoom_level_min = 0
    /\ zoom_level_max = U8_MAX
    /\ cache = IndexCacheNew(INDEX_CACHE_SIZE)
    /\ buffer_data = <<>>
    /\ buffer_position = 0
    /\ \E zoom_level_difference \in 1..MaxZoomDifference :
          \E tile \in BitmaskTiles(zoom_level_difference + 1) :
             last = [ op |-> "tile", tile |-> tile,
                      zoom_level_difference |-> zoom_level_difference ]

\* QueryCalculations::calculate_tile_bitmask
CalculateTileBitmask ==
    /\ last.op = "tile"
    /\ last' = [ op |-> "calculate_tile_bitmask", tile |-> last.tile,
                 zoom_level_difference |-> last.zoom_level_difference,
                 bitmask |-> calculate_tile_bitmask(last.tile, last.zoom_level_difference) ]
    /\ UNCHANGED <<buffer_data, buffer_position, file, header, zoom_level_min, zoom_level_max, cache>>

NextTileBitmask == CalculateTileBitmask

SpecTileBitmask == InitTileBitmask /\ [][NextTileBitmask]_vars

\* the bitmasks, at the zoom level difference, of the sixteen tiles whose
\* second-level sub-tiles are (u, v), u and v in 0..3: every pair of a parent
\* parity and a sub-tile parity
SixteenBitmasks(zoom_level_difference) ==
    [ k \in 0..15 |->
        calculate_tile_bitmask(
            TileNew((k % 4) * Pow2(zoom_level_difference - 2),
                    (k \div 4) * Pow2(zoom_level_difference - 2),
                    zoom_level_difference + 1, TileSize),
            zoom_level_difference) ]

\* the four children of the tile, one zoom level further down
Children(tile) ==
    { TileNew(2 * tile.tile_x + i, 2 * tile.tile_y + j, tile.zoom_level + 1, tile.tile_size) :
        i \in 0..1, j \in 0..1 }

\* C30: for a zoom level difference of 2 or more the bitmask of a tile has
\* exactly one bit set, and the bitmasks over the sixteen pairs of a parent
\* parity and a sub-tile parity are pairwise distinct and have all sixteen
\* bits between them; for a zoom level difference of 1 the bitmask of a
\* tile has exactly the bits of the bitmasks, at difference 2, of its four
\* children (2x + i, 2y + j).
C30_BitmaskTableIsConsistent ==
    last.op = "calculate_tile_bitmask" =>
        /\ last.zoom_level_difference >= 2 =>
              /\ \E b \in 0..15 : last.bitmask = Pow2(b)
              /\ \E sixteen \in {SixteenBitmasks(last.zoom_level_difference)} :
                    /\ \A k, l \in 0..15 : k # l => sixteen[k] # sixteen[l]
                    /\ \A b \in 0..15 : \E k \in 0..15 : BitOf(sixteen[k], b) = 1
                    /\ \E k \in 0..15 : sixteen[k] = last.bitmask
        /\ last.zoom_level_difference = 1 =>
              \E masks \in {{ calculate_tile_bitmask(c, 2) : c \in Children(last.tile) }} :
                 /\ Cardinality(masks) = 4
                 /\ \A b \in 0..15 :
                       BitOf(last.bitmask, b) = 1 <=> \E mask \in masks : BitOf(mask, b) = 1

\* the bitmask of a tile in the upper right quarter of its base tile, one
\* zoom level below it: 0x3300
C30_Witness ==
    /\ last.op = "calculate_tile_bitmask"
    /\ last.zoom_level_difference = 1
    /\ last.tile.tile_x = 3
    /\ last.tile.tile_y = 2
    /\ last.bitmask = 13056
    /\ { calculate_tile_bitmask(c, 2) : c \in Children(last.tile) } = {8192, 4096, 512, 256}

====
